---- MODULE Spec2Model ----
(***************************************************************************)
(* Model of the hyperoptimized word counter, src/wordcount_hyperopt.c      *)
(* (AVX-512 / SSE4.2 build): cuts, per-thread tables, the AVX-512          *)
(* tokenizer and its scalar twin, merge_tables and the top-K selection.    *)
(*                                                                         *)
(* Sizes are scaled down so that the cases of interest are reachable in a  *)
(* finite check; the scaled program constants are listed below with the    *)
(* value the source gives them.                                            *)
(***************************************************************************)
EXTENDS Integers, Sequences, FiniteSets, TLC

(***************************************************************************)
(* Program constants (scaled)                                              *)
(***************************************************************************)
\* #define MAX_WORD 100: the word buffer holds MAX_WORD - 1 letters.
MAX_WORD == 4
\* The AVX-512 window: 64 bytes per _mm512_loadu_si512 (one mask bit each).
WINDOW == 4
\* #define INITIAL_CAPACITY 65536
INITIAL_CAPACITY == 2
\* #define STRING_POOL_SIZE (32 * 1024 * 1024)
STRING_POOL_SIZE == 16
\* #define TOP_N 100
TOP_N == 2
\* main: the heap path is taken when total_unique > TOP_N * 10.
HEAP_FACTOR == 2

(***************************************************************************)
(* Bounds of the model                                                     *)
(***************************************************************************)
\* Longest buffer enumerated exhaustively for a whole run of main.
MaxLen == 5
\* Largest NUM_THREADS (a compile-time constant of the program).
MaxThreads == 3
\* Longest buffer enumerated exhaustively for the two tokenizers run alone.
MaxTokLen == 8
\* Longest generated buffer of the runs checked for termination
MaxFairLen == 3
\* Most calls of table_insert_hashed on the tables driven directly, and the
\* largest capacity at which table_grow is called on them from outside
MaxInserts == 4
MaxCapacity == 4
MaxAllocLen == 16
MaxAllocs == 3

(***************************************************************************)
(* Unsigned machine words.  TLC's integers are 32-bit signed, so a         *)
(* uint32_t is a little-endian tuple of four bytes and a uint64_t one of   *)
(* eight bytes.                                                            *)
(***************************************************************************)
\* a ^ b on bytes, bit by bit
Xor8(a, b) ==
    IF b = 0 THEN a
    ELSE LET x(p) == (((a \div p) + (b \div p)) % 2) * p
         IN  x(1) + x(2) + x(4) + x(8) + x(16) + x(32) + x(64) + x(128)

U32Zero == <<0, 0, 0, 0>>

\* The byte table of the reflected CRC32C polynomial 0x82F63B78 (the CRC the
\* SSE4.2 crc32 instruction computes): CrcTable[i + 1] is the register after
\* eight shift steps from i.
CrcTable ==
    <<<<0, 0, 0, 0>>, <<3, 131, 107, 242>>, <<247, 112, 59, 225>>, <<244, 243, 80, 19>>,
      <<31, 151, 154, 199>>, <<28, 20, 241, 53>>, <<232, 231, 161, 38>>, <<235, 100, 202, 212>>,
      <<207, 88, 217, 138>>, <<204, 219, 178, 120>>, <<56, 40, 226, 107>>, <<59, 171, 137, 153>>,
      <<208, 207, 67, 77>>, <<211, 76, 40, 191>>, <<39, 191, 120, 172>>, <<36, 60, 19, 94>>,
      <<111, 199, 94, 16>>, <<108, 68, 53, 226>>, <<152, 183, 101, 241>>, <<155, 52, 14, 3>>,
      <<112, 80, 196, 215>>, <<115, 211, 175, 37>>, <<135, 32, 255, 54>>, <<132, 163, 148, 196>>,
      <<160, 159, 135, 154>>, <<163, 28, 236, 104>>, <<87, 239, 188, 123>>, <<84, 108, 215, 137>>,
      <<191, 8, 29, 93>>, <<188, 139, 118, 175>>, <<72, 120, 38, 188>>, <<75, 251, 77, 78>>,
      <<222, 142, 189, 32>>, <<221, 13, 214, 210>>, <<41, 254, 134, 193>>, <<42, 125, 237, 51>>,
      <<193, 25, 39, 231>>, <<194, 154, 76, 21>>, <<54, 105, 28, 6>>, <<53, 234, 119, 244>>,
      <<17, 214, 100, 170>>, <<18, 85, 15, 88>>, <<230, 166, 95, 75>>, <<229, 37, 52, 185>>,
      <<14, 65, 254, 109>>, <<13, 194, 149, 159>>, <<249, 49, 197, 140>>, <<250, 178, 174, 126>>,
      <<177, 73, 227, 48>>, <<178, 202, 136, 194>>, <<70, 57, 216, 209>>, <<69, 186, 179, 35>>,
      <<174, 222, 121, 247>>, <<173, 93, 18, 5>>, <<89, 174, 66, 22>>, <<90, 45, 41, 228>>,
      <<126, 17, 58, 186>>, <<125, 146, 81, 72>>, <<137, 97, 1, 91>>, <<138, 226, 106, 169>>,
      <<97, 134, 160, 125>>, <<98, 5, 203, 143>>, <<150, 246, 155, 156>>, <<149, 117, 240, 110>>,
      <<188, 29, 123, 65>>, <<191, 158, 16, 179>>, <<75, 109, 64, 160>>, <<72, 238, 43, 82>>,
      <<163, 138, 225, 134>>, <<160, 9, 138, 116>>, <<84, 250, 218, 103>>, <<87, 121, 177, 149>>,
      <<115, 69, 162, 203>>, <<112, 198, 201, 57>>, <<132, 53, 153, 42>>, <<135, 182, 242, 216>>,
      <<108, 210, 56, 12>>, <<111, 81, 83, 254>>, <<155, 162, 3, 237>>, <<152, 33, 104, 31>>,
      <<211, 218, 37, 81>>, <<208, 89, 78, 163>>, <<36, 170, 30, 176>>, <<39, 41, 117, 66>>,
      <<204, 77, 191, 150>>, <<207, 206, 212, 100>>, <<59, 61, 132, 119>>, <<56, 190, 239, 133>>,
      <<28, 130, 252, 219>>, <<31, 1, 151, 41>>, <<235, 242, 199, 58>>, <<232, 113, 172, 200>>,
      <<3, 21, 102, 28>>, <<0, 150, 13, 238>>, <<244, 101, 93, 253>>, <<247, 230, 54, 15>>,
      <<98, 147, 198, 97>>, <<97, 16, 173, 147>>, <<149, 227, 253, 128>>, <<150, 96, 150, 114>>,
      <<125, 4, 92, 166>>, <<126, 135, 55, 84>>, <<138, 116, 103, 71>>, <<137, 247, 12, 181>>,
      <<173, 203, 31, 235>>, <<174, 72, 116, 25>>, <<90, 187, 36, 10>>, <<89, 56, 79, 248>>,
      <<178, 92, 133, 44>>, <<177, 223, 238, 222>>, <<69, 44, 190, 205>>, <<70, 175, 213, 63>>,
      <<13, 84, 152, 113>>, <<14, 215, 243, 131>>, <<250, 36, 163, 144>>, <<249, 167, 200, 98>>,
      <<18, 195, 2, 182>>, <<17, 64, 105, 68>>, <<229, 179, 57, 87>>, <<230, 48, 82, 165>>,
      <<194, 12, 65, 251>>, <<193, 143, 42, 9>>, <<53, 124, 122, 26>>, <<54, 255, 17, 232>>,
      <<221, 155, 219, 60>>, <<222, 24, 176, 206>>, <<42, 235, 224, 221>>, <<41, 104, 139, 47>>,
      <<120, 59, 246, 130>>, <<123, 184, 157, 112>>, <<143, 75, 205, 99>>, <<140, 200, 166, 145>>,
      <<103, 172, 108, 69>>, <<100, 47, 7, 183>>, <<144, 220, 87, 164>>, <<147, 95, 60, 86>>,
      <<183, 99, 47, 8>>, <<180, 224, 68, 250>>, <<64, 19, 20, 233>>, <<67, 144, 127, 27>>,
      <<168, 244, 181, 207>>, <<171, 119, 222, 61>>, <<95, 132, 142, 46>>, <<92, 7, 229, 220>>,
      <<23, 252, 168, 146>>, <<20, 127, 195, 96>>, <<224, 140, 147, 115>>, <<227, 15, 248, 129>>,
      <<8, 107, 50, 85>>, <<11, 232, 89, 167>>, <<255, 27, 9, 180>>, <<252, 152, 98, 70>>,
      <<216, 164, 113, 24>>, <<219, 39, 26, 234>>, <<47, 212, 74, 249>>, <<44, 87, 33, 11>>,
      <<199, 51, 235, 223>>, <<196, 176, 128, 45>>, <<48, 67, 208, 62>>, <<51, 192, 187, 204>>,
      <<166, 181, 75, 162>>, <<165, 54, 32, 80>>, <<81, 197, 112, 67>>, <<82, 70, 27, 177>>,
      <<185, 34, 209, 101>>, <<186, 161, 186, 151>>, <<78, 82, 234, 132>>, <<77, 209, 129, 118>>,
      <<105, 237, 146, 40>>, <<106, 110, 249, 218>>, <<158, 157, 169, 201>>, <<157, 30, 194, 59>>,
      <<118, 122, 8, 239>>, <<117, 249, 99, 29>>, <<129, 10, 51, 14>>, <<130, 137, 88, 252>>,
      <<201, 114, 21, 178>>, <<202, 241, 126, 64>>, <<62, 2, 46, 83>>, <<61, 129, 69, 161>>,
      <<214, 229, 143, 117>>, <<213, 102, 228, 135>>, <<33, 149, 180, 148>>, <<34, 22, 223, 102>>,
      <<6, 42, 204, 56>>, <<5, 169, 167, 202>>, <<241, 90, 247, 217>>, <<242, 217, 156, 43>>,
      <<25, 189, 86, 255>>, <<26, 62, 61, 13>>, <<238, 205, 109, 30>>, <<237, 78, 6, 236>>,
      <<196, 38, 141, 195>>, <<199, 165, 230, 49>>, <<51, 86, 182, 34>>, <<48, 213, 221, 208>>,
      <<219, 177, 23, 4>>, <<216, 50, 124, 246>>, <<44, 193, 44, 229>>, <<47, 66, 71, 23>>,
      <<11, 126, 84, 73>>, <<8, 253, 63, 187>>, <<252, 14, 111, 168>>, <<255, 141, 4, 90>>,
      <<20, 233, 206, 142>>, <<23, 106, 165, 124>>, <<227, 153, 245, 111>>, <<224, 26, 158, 157>>,
      <<171, 225, 211, 211>>, <<168, 98, 184, 33>>, <<92, 145, 232, 50>>, <<95, 18, 131, 192>>,
      <<180, 118, 73, 20>>, <<183, 245, 34, 230>>, <<67, 6, 114, 245>>, <<64, 133, 25, 7>>,
      <<100, 185, 10, 89>>, <<103, 58, 97, 171>>, <<147, 201, 49, 184>>, <<144, 74, 90, 74>>,
      <<123, 46, 144, 158>>, <<120, 173, 251, 108>>, <<140, 94, 171, 127>>, <<143, 221, 192, 141>>,
      <<26, 168, 48, 227>>, <<25, 43, 91, 17>>, <<237, 216, 11, 2>>, <<238, 91, 96, 240>>,
      <<5, 63, 170, 36>>, <<6, 188, 193, 214>>, <<242, 79, 145, 197>>, <<241, 204, 250, 55>>,
      <<213, 240, 233, 105>>, <<214, 115, 130, 155>>, <<34, 128, 210, 136>>, <<33, 3, 185, 122>>,
      <<202, 103, 115, 174>>, <<201, 228, 24, 92>>, <<61, 23, 72, 79>>, <<62, 148, 35, 189>>,
      <<117, 111, 110, 243>>, <<118, 236, 5, 1>>, <<130, 31, 85, 18>>, <<129, 156, 62, 224>>,
      <<106, 248, 244, 52>>, <<105, 123, 159, 198>>, <<157, 136, 207, 213>>, <<158, 11, 164, 39>>,
      <<186, 55, 183, 121>>, <<185, 180, 220, 139>>, <<77, 71, 140, 152>>, <<78, 196, 231, 106>>,
      <<165, 160, 45, 190>>, <<166, 35, 70, 76>>, <<82, 208, 22, 95>>, <<81, 83, 125, 173>>>>

\* _mm_crc32_u8((uint32_t)crc, b): crc = (crc >> 8) ^ table[(crc ^ b) & 0xFF]
mm_crc32_u8(crc, b) ==
    LET t == CrcTable[Xor8(crc[1], b) + 1]
    IN  <<Xor8(crc[2], t[1]), Xor8(crc[3], t[2]), Xor8(crc[4], t[3]), t[4]>>

\* h ^ (h >> 33) on a uint64_t
XorShr33(h) ==
    <<Xor8(h[1], (h[5] \div 2) + (h[6] % 2) * 128),
      Xor8(h[2], (h[6] \div 2) + (h[7] % 2) * 128),
      Xor8(h[3], (h[7] \div 2) + (h[8] % 2) * 128),
      Xor8(h[4], h[8] \div 2),
      h[5], h[6], h[7], h[8]>>

\* a * b mod 2^64, schoolbook on bytes: column sums with carries
Mul64(a, b) ==
    LET c1 == a[1]*b[1]
        c2 == a[1]*b[2] + a[2]*b[1] + (c1 \div 256)
        c3 == a[1]*b[3] + a[2]*b[2] + a[3]*b[1] + (c2 \div 256)
        c4 == a[1]*b[4] + a[2]*b[3] + a[3]*b[2] + a[4]*b[1] + (c3 \div 256)
        c5 == a[1]*b[5] + a[2]*b[4] + a[3]*b[3] + a[4]*b[2] + a[5]*b[1]
              + (c4 \div 256)
        c6 == a[1]*b[6] + a[2]*b[5] + a[3]*b[4] + a[4]*b[3] + a[5]*b[2]
              + a[6]*b[1] + (c5 \div 256)
        c7 == a[1]*b[7] + a[2]*b[6] + a[3]*b[5] + a[4]*b[4] + a[5]*b[3]
              + a[6]*b[2] + a[7]*b[1] + (c6 \div 256)
        c8 == a[1]*b[8] + a[2]*b[7] + a[3]*b[6] + a[4]*b[5] + a[5]*b[4]
              + a[6]*b[3] + a[7]*b[2] + a[8]*b[1] + (c7 \div 256)
    IN  <<c1 % 256, c2 % 256, c3 % 256, c4 % 256,
          c5 % 256, c6 % 256, c7 % 256, c8 % 256>>

\* 0xff51afd7ed558ccd and 0xc4ceb9fe1a85ec53, little-endian bytes
FinalizeK1 == <<205, 140, 85, 237, 215, 175, 81, 255>>
FinalizeK2 == <<83, 236, 133, 26, 254, 185, 206, 196>>

\* crc32c_finalize64: the 64 -> 32 bit avalanche; returns (uint32_t)h
crc32c_finalize64(crc) ==
    LET h0 == <<crc[1], crc[2], crc[3], crc[4], 0, 0, 0, 0>>
        h1 == Mul64(XorShr33(h0), FinalizeK1)
        h2 == Mul64(XorShr33(h1), FinalizeK2)
        h3 == XorShr33(h2)
    IN  <<h3[1], h3[2], h3[3], h3[4]>>

\* uint16_t fp = (uint16_t)(h32 ^ (h32 >> 16))
Fp16(h) == Xor8(h[1], h[3]) + 256 * Xor8(h[2], h[4])

\* hash & mask for a power-of-two table of at most 2^16 slots
SlotOf(h, capacity) == (h[1] + 256 * h[2]) % capacity

\* One shift step of the reflected CRC32C register, here eight bytes wide:
\* reg = (reg >> 1) ^ (reg & 1 ? 0x82F63B78 : 0)
CrcShift(reg) ==
    LET odd == reg[1] % 2 = 1
        Shr(k) == (reg[k] \div 2) + (IF k < 8 THEN (reg[k + 1] % 2) * 128 ELSE 0)
    IN  <<IF odd THEN Xor8(Shr(1), 120) ELSE Shr(1),
          IF odd THEN Xor8(Shr(2), 59) ELSE Shr(2),
          IF odd THEN Xor8(Shr(3), 246) ELSE Shr(3),
          IF odd THEN Xor8(Shr(4), 130) ELSE Shr(4),
          Shr(5), Shr(6), Shr(7), Shr(8)>>

\* The crc32 instruction on an operand of `bits` bits, v its little-endian
\* bytes padded to eight: the operand is xor-ed onto the register and shifted
\* out bit by bit, lowest bit first
CrcOfOperand(crc, v, bits) ==
    LET Shift8(reg) ==
            CrcShift(CrcShift(CrcShift(CrcShift(
                CrcShift(CrcShift(CrcShift(CrcShift(reg))))))))
        RECURSIVE Steps(_, _)
        Steps(reg, n) ==
            \* reg[1] >= 0 always holds; the test makes TLC compute reg at
            \* each level instead of stacking the unevaluated shifts
            IF n = 0 \/ reg[1] < 0 THEN reg ELSE Steps(Shift8(reg), n - 8)
        r == Steps(<<Xor8(crc[1], v[1]), Xor8(crc[2], v[2]),
                     Xor8(crc[3], v[3]), Xor8(crc[4], v[4]),
                     v[5], v[6], v[7], v[8]>>, bits)
    IN  <<r[1], r[2], r[3], r[4]>>

\* _mm_crc32_u32((uint32_t)h, v) and _mm_crc32_u64(h, v), v as memcpy read it
mm_crc32_u32(crc, v) == CrcOfOperand(crc, v \o <<0, 0, 0, 0>>, 32)
mm_crc32_u64(crc, v) == CrcOfOperand(crc, v, 64)

\* while (len--) h = _mm_crc32_u8((uint32_t)h, *s++), which is also how the
\* tokenizers accumulate a word's CRC
RECURSIVE CrcOfBytes(_, _)
CrcOfBytes(crc, s) ==
    \* crc[1] >= 0 always holds; the test makes TLC compute crc at each level
    IF s = <<>> \/ crc[1] < 0 THEN crc
    ELSE CrcOfBytes(mm_crc32_u8(crc, Head(s)), Tail(s))

\* hash_word, SSE4.2 branch: eight bytes at a time, then four if left, then
\* byte by byte, then finalize
hash_word(s) ==
    LET RECURSIVE Loop8(_, _)
        Loop8(h, r) ==
            IF Len(r) >= 8
            THEN Loop8(mm_crc32_u64(h, SubSeq(r, 1, 8)), SubSeq(r, 9, Len(r)))
            ELSE <<h, r>>
        a == Loop8(U32Zero, s)
        b == IF Len(a[2]) >= 4
             THEN <<mm_crc32_u32(a[1], SubSeq(a[2], 1, 4)),
                    SubSeq(a[2], 5, Len(a[2]))>>
             ELSE a
    IN  crc32c_finalize64(CrcOfBytes(b[1], b[2]))

(***************************************************************************)
(* Entry and ThreadTable                                                   *)
(***************************************************************************)
\* A char* into a table's storage: NULL, an offset into string_pool, or the
\* k-th block of malloc_words.
NullPtr == <<"null", 0>>

\* A slot after memset(entries, 0, ...).  `word` is the pointer, `bytes` the
\* NUL-terminated contents it points to (without the NUL).
NullEntry ==
    [word |-> NullPtr, bytes |-> <<>>, count |-> 0, hash |-> U32Zero,
     len |-> 0, fp16 |-> 0]

\* x rounded up to a power of two
next_pow2(x) ==
    LET RECURSIVE P(_)
        P(p) == IF p >= x THEN p ELSE P(2 * p)
    IN  IF x <= 1 THEN 1 ELSE P(2)

\* main: one tables[i] after initialisation for a slice of chunk_size bytes
InitTable(chunk_size) ==
    LET estimated_unique == (chunk_size \div 5) \div 10
        c == next_pow2(estimated_unique * 2)
        capacity == IF c < INITIAL_CAPACITY THEN INITIAL_CAPACITY ELSE c
    IN  [entries |-> [k \in 1..capacity |-> NullEntry],
         capacity |-> capacity, size |-> 0, total_words |-> 0,
         pool_used |-> 0, malloc_words |-> <<>>]

\* A faulty pool_alloc, which advances pool_used by the bytes asked for
\* without rounding up to 8
PoolAllocUnaligned(t, len) ==
    IF t.pool_used + len + 1 > STRING_POOL_SIZE
    THEN <<(<<"heap", Len(t.malloc_words) + 1>>),
           [t EXCEPT !.malloc_words = Append(@, len + 1)]>>
    ELSE <<(<<"pool", t.pool_used>>),
           [t EXCEPT !.pool_used = @ + len + 1]>>

\* A faulty pool_alloc, which returns the malloc'ed block without recording
\* it in malloc_words
PoolAllocUnrecorded(t, len) ==
    IF t.pool_used + len + 1 > STRING_POOL_SIZE
    THEN <<(<<"heap", Len(t.malloc_words) + 1>>), t>>
    ELSE <<(<<"pool", t.pool_used>>),
           [t EXCEPT !.pool_used = @ + ((len + 1 + 7) \div 8) * 8]>>

\* pool_alloc: <<pointer, table>>.  A request that does not fit the pool is
\* served by malloc and recorded in malloc_words.
pool_alloc(t, len) ==
    IF t.pool_used + len + 1 > STRING_POOL_SIZE
    THEN <<(<<"heap", Len(t.malloc_words) + 1>>),
           [t EXCEPT !.malloc_words = Append(@, len + 1)]>>
    ELSE <<(<<"pool", t.pool_used>>),
           [t EXCEPT !.pool_used = @ + ((len + 1 + 7) \div 8) * 8]>>

\* table_grow's inner loop: the first free slot at or after idx (0-based)
\* A faulty FreeSlot, which takes the home slot whether it is free or not
FreeSlotNoProbe(entries, idx, mask) == idx

\* A faulty FreeSlot, which starts looking one slot past the home slot
FreeSlotSkipHome(entries, idx, mask) ==
    LET RECURSIVE Scan(_)
        Scan(j) == IF entries[j + 1].word = NullPtr THEN j
                   ELSE Scan((j + 1) % (mask + 1))
    IN  Scan((idx + 1) % (mask + 1))

RECURSIVE FreeSlot(_, _, _)
FreeSlot(entries, idx, mask) ==
    IF entries[idx + 1].word = NullPtr THEN idx
    ELSE FreeSlot(entries, (idx + 1) % (mask + 1), mask)

\* A faulty GrowCopy, which copies each entry to the slot it had
GrowCopyInPlace(old, i, new_entries, new_cap) ==
    [k \in 1..new_cap |-> IF k <= Len(old) THEN old[k] ELSE NullEntry]

RECURSIVE GrowCopy(_, _, _, _)
GrowCopy(old, i, new_entries, new_cap) ==
    IF i >= Len(old) THEN new_entries
    ELSE LET e == old[i + 1]
         IN  IF e.word = NullPtr THEN GrowCopy(old, i + 1, new_entries, new_cap)
             ELSE LET idx == FreeSlot(new_entries, SlotOf(e.hash, new_cap),
                                      new_cap - 1)
                  IN  GrowCopy(old, i + 1,
                               [new_entries EXCEPT ![idx + 1] = e], new_cap)

\* table_grow: double the capacity and reinsert every live entry by its
\* stored hash, in slot order.
table_grow(t) ==
    LET new_cap == t.capacity * 2
    IN  [t EXCEPT !.entries = GrowCopy(t.entries, 0,
                                       [k \in 1..new_cap |-> NullEntry], new_cap),
                  !.capacity = new_cap]

\* A faulty InsertNew, which leaves out the growth check
InsertNewNoGrow(t, idx, word, len, hash, fp) ==
    LET pa == pool_alloc(t, len)
        e == [word |-> pa[1], bytes |-> word, count |-> 1, hash |-> hash,
              len |-> len, fp16 |-> fp]
    IN  [pa[2] EXCEPT !.entries[idx + 1] = e,
                      !.size = @ + 1, !.total_words = @ + 1]

\* table_insert_hashed, first branch of the probe loop: the slot is empty
InsertNew(t, idx, word, len, hash, fp) ==
    LET pa == pool_alloc(t, len)
        e == [word |-> pa[1], bytes |-> word, count |-> 1, hash |-> hash,
              len |-> len, fp16 |-> fp]
        t1 == [pa[2] EXCEPT !.entries[idx + 1] = e,
                            !.size = @ + 1, !.total_words = @ + 1]
    IN  IF t1.size * 10 > t1.capacity * 7 THEN table_grow(t1) ELSE t1

\* A faulty InsertHit, which forgets total_words
InsertHitCountOnly(t, idx) == [t EXCEPT !.entries[idx + 1].count = @ + 1]

\* table_insert_hashed, second branch: hash, len and fp16 agree and memcmp
\* finds the same bytes
InsertHit(t, idx) ==
    [t EXCEPT !.entries[idx + 1].count = @ + 1, !.total_words = @ + 1]

\* memcmp(e->word, word, len) == 0
SameBytes(e, word, len) == SubSeq(e.bytes, 1, len) = SubSeq(word, 1, len)

\* table_insert_hashed (release build).  probes counts the slots visited; the
\* do-while ends when idx is back at start_idx, and the code then grows the
\* table and inserts again.
RECURSIVE table_insert_hashed(_, _, _, _, _)
table_insert_hashed(t, word, len, hash, fp) ==
    LET mask == t.capacity - 1
        RECURSIVE Probe(_, _)
        Probe(idx, probes) ==
            IF probes = t.capacity
            THEN table_insert_hashed(table_grow(t), word, len, hash, fp)
            ELSE LET e == t.entries[idx + 1]
                 IN  IF e.word = NullPtr
                     THEN InsertNew(t, idx, word, len, hash, fp)
                     ELSE IF e.hash = hash /\ e.len = len /\ e.fp16 = fp
                             /\ SameBytes(e, word, len)
                     THEN InsertHit(t, idx)
                     ELSE Probe((idx + 1) % (mask + 1), probes + 1)
    IN  IF len = 0 \/ len >= MAX_WORD THEN t
        ELSE Probe(SlotOf(hash, t.capacity), 0)

\* The live entries of an entries array, in slot order
LiveEntries(entries) ==
    LET RECURSIVE L(_)
        L(i) == IF i = 0 THEN <<>>
                ELSE IF entries[i].word = NullPtr THEN L(i - 1)
                ELSE Append(L(i - 1), entries[i])
    IN  L(Len(entries))

(***************************************************************************)
(* Tokenizers.  A tokenizer's locals are the record                        *)
(*   [t, word, crc, i, prev_tail_letter, drop_leading]                     *)
(* where word holds word[0 .. word_len-1] (word_len = Len(word)) and i is  *)
(* the 0-based offset into data (data[i] in C is data[i + 1] here).        *)
(***************************************************************************)
is_ascii_letter(c) == (c >= 97 /\ c <= 122) \/ (c >= 65 /\ c <= 90)

\* A faulty c | 0x20, which leaves the byte as it is
Or20Identity(c) == c

\* c | 0x20
Or20(c) == IF (c \div 32) % 2 = 1 THEN c ELSE c + 32

\* (c & 0xC0) == 0x80
IsContinuation(c) == c >= 128 /\ c <= 191

TokInit(t, drop_leading) ==
    [t |-> t, word |-> <<>>, crc |-> U32Zero, i |-> 0,
     prev_tail_letter |-> 0, drop_leading |-> drop_leading]

\* The body of every `if (word_len > 0) { ... }` flush: finalize the CRC,
\* insert the token, reset crc and word_len.
Emit(st) ==
    LET h32 == crc32c_finalize64(st.crc)
    IN  [st EXCEPT !.t = table_insert_hashed(st.t, st.word, Len(st.word),
                                             h32, Fp16(h32)),
                   !.crc = U32Zero, !.word = <<>>]

FlushIfWord(st) == IF Len(st.word) > 0 THEN Emit(st) ELSE st

\* A faulty letter branch, which emits the full buffer as a token and goes on
\* with the rest of the run as another
AddLetterSplit(st, c) ==
    LET s1 == IF Len(st.word) < MAX_WORD - 1 THEN st ELSE Emit(st)
    IN  [s1 EXCEPT !.word = Append(@, c + (IF c < 97 THEN 32 ELSE 0)),
                   !.crc = mm_crc32_u8(s1.crc, c + (IF c < 97 THEN 32 ELSE 0))]

\* A faulty letter branch, which goes on hashing the letters it no longer
\* stores
AddLetterHashAll(st, c) ==
    IF Len(st.word) < MAX_WORD - 1
    THEN [st EXCEPT !.word = Append(@, Or20(c)),
                    !.crc = mm_crc32_u8(st.crc, Or20(c))]
    ELSE [st EXCEPT !.crc = mm_crc32_u8(st.crc, Or20(c))]

\* The letter branch: store the lowercased byte while the buffer has room
AddLetter(st, c) ==
    IF Len(st.word) < MAX_WORD - 1
    THEN [st EXCEPT !.word = Append(@, Or20(c)),
                    !.crc = mm_crc32_u8(st.crc, Or20(c))]
    ELSE st

\* while (i + 1 < size && (data[i + 1] & 0xC0) == 0x80) i++;
RECURSIVE SkipContinuation(_, _)
SkipContinuation(data, i) ==
    IF i + 1 < Len(data) /\ IsContinuation(data[i + 2])
    THEN SkipContinuation(data, i + 1) ELSE i

\* process_chunk: one iteration of the for loop, at st.i
ScalarStep(st, data) ==
    LET c == data[st.i + 1]
    IN  IF st.drop_leading = 1 /\ is_ascii_letter(c)
        THEN [st EXCEPT !.i = @ + 1]
        ELSE LET s0 == [st EXCEPT !.drop_leading = 0]
             IN  IF c >= 128
                 THEN [FlushIfWord(s0) EXCEPT
                          !.i = SkipContinuation(data, s0.i) + 1]
                 ELSE IF is_ascii_letter(c)
                 THEN [AddLetter(s0, c) EXCEPT !.i = @ + 1]
                 ELSE [FlushIfWord(s0) EXCEPT !.i = @ + 1]

RECURSIVE ScalarLoop(_, _)
ScalarLoop(st, data) ==
    IF st.i < Len(data) THEN ScalarLoop(ScalarStep(st, data), data) ELSE st

\* process_chunk(t, data, size, drop_leading): the table it leaves
process_chunk(t, data, drop_leading) ==
    FlushIfWord(ScalarLoop(TokInit(t, drop_leading), data)).t

\* ---- process_chunk_avx512 ----
AllOnes == 2 ^ WINDOW - 1

\* __builtin_ctzll(m), m # 0
RECURSIVE Ctz(_)
Ctz(m) == IF m % 2 = 1 THEN 0 ELSE 1 + Ctz(m \div 2)

\* The letter mask of the window at offset i: bit k is set iff data[i + k] is
\* an ASCII letter (m_up | m_lo) & ascii_mask.
LettersMask(data, i) ==
    LET RECURSIVE B(_)
        B(k) == IF k = WINDOW THEN 0
                ELSE (IF is_ascii_letter(data[i + k + 1]) THEN 2 ^ k ELSE 0)
                     + B(k + 1)
    IN  B(0)

\* A faulty AvxRun, which ends the word carried in from the previous window
\* even when the run starts at bit 0
AvxRunSplit(st, data, m) ==
    LET start == Ctz(m)
        tail == m \div (2 ^ start)
        run_len == IF tail = AllOnes THEN WINDOW - start
                   ELSE Ctz(AllOnes - tail)
        s1 == FlushIfWord(st)
        RECURSIVE Copy(_, _)
        Copy(s, k) ==
            IF k < run_len /\ Len(s.word) < MAX_WORD - 1
            THEN Copy([s EXCEPT
                         !.word = Append(@, Or20(data[st.i + start + k + 1])),
                         !.crc = mm_crc32_u8(s.crc,
                                             Or20(data[st.i + start + k + 1]))],
                      k + 1)
            ELSE s
        s2 == Copy(s1, 0)
        s3 == IF start + run_len < WINDOW
              THEN [FlushIfWord(s2) EXCEPT !.prev_tail_letter = 0]
              ELSE [s2 EXCEPT !.prev_tail_letter = 1]
        mask == IF run_len >= WINDOW THEN AllOnes
                ELSE (2 ^ run_len - 1) * (2 ^ start)
    IN  <<s3, m - mask>>

\* One iteration of `while (m)`: the lowest run of the mask
AvxRun(st, data, m) ==
    LET start == Ctz(m)
        tail == m \div (2 ^ start)
        run_len == IF tail = AllOnes THEN WINDOW - start
                   ELSE Ctz(AllOnes - tail)
        s1 == IF start > 0 /\ Len(st.word) > 0 THEN Emit(st) ELSE st
        RECURSIVE Copy(_, _)
        Copy(s, k) ==
            IF k < run_len /\ Len(s.word) < MAX_WORD - 1
            THEN Copy([s EXCEPT
                         !.word = Append(@, Or20(data[st.i + start + k + 1])),
                         !.crc = mm_crc32_u8(s.crc,
                                             Or20(data[st.i + start + k + 1]))],
                      k + 1)
            ELSE s
        s2 == Copy(s1, 0)
        s3 == IF start + run_len < WINDOW
              THEN [FlushIfWord(s2) EXCEPT !.prev_tail_letter = 0]
              ELSE [s2 EXCEPT !.prev_tail_letter = 1]
        mask == IF run_len >= WINDOW THEN AllOnes
                ELSE (2 ^ run_len - 1) * (2 ^ start)
    IN  <<s3, m - mask>>

RECURSIVE AvxRuns(_, _, _)
AvxRuns(st, data, m) ==
    IF m = 0 THEN st
    ELSE LET r == AvxRun(st, data, m) IN AvxRuns(r[1], data, r[2])

\* process_chunk_avx512: one iteration of the window loop, at st.i
AvxWindow(st, data) ==
    LET letters == LettersMask(data, st.i)
        \* a word carried in from the previous window ends at its boundary
        s1 == IF st.prev_tail_letter = 1 /\ letters % 2 = 0
              THEN [FlushIfWord(st) EXCEPT !.prev_tail_letter = 0]
              ELSE st
        skip == s1.drop_leading = 1 /\ letters % 2 = 1 /\ letters = AllOnes
        lead == Ctz(AllOnes - letters)
        letters2 == IF s1.drop_leading = 1 /\ letters % 2 = 1
                    THEN (letters \div (2 ^ lead)) * (2 ^ lead)
                    ELSE letters
        s2 == [s1 EXCEPT !.drop_leading = 0]
    IN  IF skip THEN [s1 EXCEPT !.i = @ + WINDOW]
        ELSE IF letters2 = 0
        THEN [FlushIfWord(s2) EXCEPT !.prev_tail_letter = 0, !.i = @ + WINDOW]
        ELSE [AvxRuns(s2, data, letters2) EXCEPT !.i = @ + WINDOW]

\* const size_t simd_end = size - (size % 64);
SimdEnd(size) == size - (size % WINDOW)

\* process_chunk_avx512: one iteration of the scalar tail loop, at st.i
AvxTailStep(st, data) ==
    LET c == data[st.i + 1]
    IN  IF st.drop_leading = 1 /\ is_ascii_letter(c)
        THEN [st EXCEPT !.i = @ + 1]
        ELSE LET s0 == [st EXCEPT !.drop_leading = 0]
             IN  IF c >= 128
                 THEN [FlushIfWord(s0) EXCEPT
                          !.i = SkipContinuation(data, s0.i) + 1]
                 ELSE IF is_ascii_letter(c)
                 THEN [AddLetter(s0, c) EXCEPT !.i = @ + 1]
                 ELSE [FlushIfWord(s0) EXCEPT !.i = @ + 1]

RECURSIVE AvxLoop(_, _)
AvxLoop(st, data) ==
    IF st.i < SimdEnd(Len(data)) THEN AvxLoop(AvxWindow(st, data), data)
    ELSE IF st.i < Len(data) THEN AvxLoop(AvxTailStep(st, data), data)
    ELSE st

\* process_chunk_avx512(t, data, size, drop_leading): the table it leaves
process_chunk_avx512(t, data, drop_leading) ==
    FlushIfWord(AvxLoop(TokInit(t, drop_leading), data)).t

(***************************************************************************)
(* main: cuts, merge_tables, top-K                                         *)
(***************************************************************************)
\* A faulty AdvancePastLetters that steps over one letter at most
AdvanceOneLetter(data, c) ==
    IF c < Len(data) /\ is_ascii_letter(data[c + 1]) THEN c + 1 ELSE c

\* while (c < file_size && is_ascii_letter(data[c])) c++;
RECURSIVE AdvancePastLetters(_, _)
AdvancePastLetters(data, c) ==
    IF c < Len(data) /\ is_ascii_letter(data[c + 1])
    THEN AdvancePastLetters(data, c + 1) ELSE c

\* A faulty ComputeCuts, with the advance past letters left out
CutsAtApprox(data, n) ==
    LET approx == Len(data) \div n
    IN  [k \in 1..(n + 1) |->
            IF k = 1 THEN 0
            ELSE IF k = n + 1 THEN Len(data)
            ELSE (k - 1) * approx]

\* A faulty ComputeCuts, which starts cut i at (i * file_size) / n
CutsAtFraction(data, n) ==
    [k \in 1..(n + 1) |->
        IF k = 1 THEN 0
        ELSE IF k = n + 1 THEN Len(data)
        ELSE AdvancePastLetters(data, ((k - 1) * Len(data)) \div n)]

\* cuts[0 .. n] as the sequence <<cuts[0], ..., cuts[n]>>
ComputeCuts(data, n) ==
    LET approx == Len(data) \div n
    IN  [k \in 1..(n + 1) |->
            IF k = 1 THEN 0
            ELSE IF k = n + 1 THEN Len(data)
            ELSE AdvancePastLetters(data, (k - 1) * approx)]

\* data[start .. end-1] (what unit->data + unit->start, end - start denote)
Slice(data, start, end) == SubSeq(data, start + 1, end)

RECURSIVE SumSizes(_)
SumSizes(tabs) ==
    IF tabs = <<>> THEN 0 ELSE Head(tabs).size + SumSizes(Tail(tabs))

\* A faulty merge step, which overwrites the count of a matching entry
MergeEntryOverwrite(g, e) ==
    LET RECURSIVE Probe(_)
        Probe(idx) ==
            LET ge == g.entries[idx + 1]
            IN  IF ge.word = NullPtr
                THEN [g EXCEPT !.entries[idx + 1] = e, !.size = @ + 1]
                ELSE IF ge.hash = e.hash /\ ge.len = e.len /\ ge.fp16 = e.fp16
                        /\ SameBytes(ge, e.bytes, e.len)
                THEN [g EXCEPT !.entries[idx + 1].count = e.count]
                ELSE Probe((idx + 1) % g.capacity)
    IN  Probe(SlotOf(e.hash, g.capacity))

\* merge_tables, the body of the inner loop for one source entry: probe the
\* global table from hash & (global_cap - 1); add the count to a matching
\* entry or copy the entry into the first empty slot.
MergeEntry(g, e) ==
    LET RECURSIVE Probe(_)
        Probe(idx) ==
            LET ge == g.entries[idx + 1]
            IN  IF ge.word = NullPtr
                THEN [g EXCEPT !.entries[idx + 1] = e, !.size = @ + 1]
                ELSE IF ge.hash = e.hash /\ ge.len = e.len /\ ge.fp16 = e.fp16
                        /\ SameBytes(ge, e.bytes, e.len)
                THEN [g EXCEPT !.entries[idx + 1].count = @ + e.count]
                ELSE Probe((idx + 1) % g.capacity)
    IN  Probe(SlotOf(e.hash, g.capacity))

RECURSIVE MergeSlots(_, _, _)
MergeSlots(g, entries, i) ==
    IF i >= Len(entries) THEN g
    ELSE IF entries[i + 1].word = NullPtr THEN MergeSlots(g, entries, i + 1)
    ELSE MergeSlots(MergeEntry(g, entries[i + 1]), entries, i + 1)

\* A faulty MergeLoop, which stops after the first table
MergeLoopFirstTable(g, tabs) ==
    IF tabs = <<>> THEN g
    ELSE MergeSlots([g EXCEPT !.total_words = @ + Head(tabs).total_words],
                    Head(tabs).entries, 0)

RECURSIVE MergeLoop(_, _)
MergeLoop(g, tabs) ==
    IF tabs = <<>> THEN g
    ELSE MergeLoop(MergeSlots([g EXCEPT !.total_words = @ + Head(tabs).total_words],
                              Head(tabs).entries, 0),
                   Tail(tabs))

\* A faulty merge_tables, which sizes the global table for the estimate
\* itself instead of twice the estimate
MergeTablesTight(tabs) ==
    LET global_cap == next_pow2(SumSizes(tabs))
    IN  MergeLoop([entries |-> [k \in 1..global_cap |-> NullEntry],
                   capacity |-> global_cap, size |-> 0, total_words |-> 0],
                  tabs)

\* merge_tables over the tables in the order given (the code: 0 .. NUM_THREADS-1):
\* [entries, capacity, size (*total_unique), total_words]
merge_tables(tabs) ==
    LET global_cap == next_pow2(SumSizes(tabs) * 2)
    IN  MergeLoop([entries |-> [k \in 1..global_cap |-> NullEntry],
                   capacity |-> global_cap, size |-> 0, total_words |-> 0],
                  tabs)

\* A faulty comparison, which leaves entries of equal count unordered
cmp_entry_count_only(ea, eb) ==
    IF eb.count # ea.count THEN (IF eb.count > ea.count THEN 1 ELSE -1)
    ELSE 0

\* strcmp on the stored bytes: the sign of the first difference
RECURSIVE StrCmp(_, _)
StrCmp(a, b) ==
    IF a = <<>> /\ b = <<>> THEN 0
    ELSE IF a = <<>> THEN -1
    ELSE IF b = <<>> THEN 1
    ELSE IF Head(a) # Head(b) THEN (IF Head(a) < Head(b) THEN -1 ELSE 1)
    ELSE StrCmp(Tail(a), Tail(b))

cmp_entry(ea, eb) ==
    IF eb.count # ea.count THEN (IF eb.count > ea.count THEN 1 ELSE -1)
    ELSE StrCmp(ea.bytes, eb.bytes)

\* qsort(base, n, sizeof(Entry), cmp_entry).  cmp_entry is a total order on
\* entries with distinct words, so the sorted array is unique; it is built
\* here by insertion.
RECURSIVE InsertSorted(_, _)
InsertSorted(sorted, e) ==
    IF sorted = <<>> THEN <<e>>
    ELSE IF cmp_entry(e, Head(sorted)) < 0 THEN <<e>> \o sorted
    ELSE <<Head(sorted)>> \o InsertSorted(Tail(sorted), e)

RECURSIVE qsort(_)
qsort(arr) ==
    IF arr = <<>> THEN <<>>
    ELSE InsertSorted(qsort(SubSeq(arr, 1, Len(arr) - 1)), arr[Len(arr)])

\* MinHeap: entries[0 .. size-1] is h (size = Len(h)); i is 0-based
HeapSwap(h, i, j) == [h EXCEPT ![i + 1] = h[j + 1], ![j + 1] = h[i + 1]]

RECURSIVE heap_sift_up(_, _)
heap_sift_up(h, i) ==
    IF i > 0
    THEN LET p == (i - 1) \div 2
         IN  IF h[p + 1].count <= h[i + 1].count THEN h
             ELSE heap_sift_up(HeapSwap(h, p, i), p)
    ELSE h

RECURSIVE heap_sift_down(_, _)
heap_sift_down(h, i) ==
    LET l == 2 * i + 1
        r == l + 1
        s1 == IF l < Len(h) /\ h[l + 1].count < h[i + 1].count THEN l ELSE i
        s2 == IF r < Len(h) /\ h[r + 1].count < h[s1 + 1].count THEN r ELSE s1
    IN  IF s2 = i THEN h ELSE heap_sift_down(HeapSwap(h, i, s2), s2)

heap_push(h, capacity, e) ==
    IF Len(h) < capacity THEN heap_sift_up(Append(h, e), Len(h))
    ELSE IF e.count > h[1].count THEN heap_sift_down([h EXCEPT ![1] = e], 0)
    ELSE h

RECURSIVE HeapPushAll(_, _, _)
HeapPushAll(h, capacity, es) ==
    IF es = <<>> THEN h
    ELSE HeapPushAll(heap_push(h, capacity, Head(es)), capacity, Tail(es))

\* main, heap path: heap_push every live slot of global, then qsort the heap
HeapTopK(entries, k) == qsort(HeapPushAll(<<>>, k, LiveEntries(entries)))

\* main, sort path: copy the live slots (at most total_unique) and qsort
SortTopK(entries, total_unique) ==
    qsort(SubSeq(LiveEntries(entries), 1, total_unique))

\* main: top_words[0 .. top_count-1]
SelectTop(g) ==
    IF g.size > TOP_N * HEAP_FACTOR THEN HeapTopK(g.entries, TOP_N)
    ELSE SortTopK(g.entries, g.size)

\* The "Top 100" loop of the report: for (i = 0; i < TOP_N && i < top_count; ...)
Report(top) ==
    [k \in 1..(IF Len(top) < TOP_N THEN Len(top) ELSE TOP_N) |->
        <<top[k].bytes, top[k].count>>]

(***************************************************************************)
(* The C reference, src/wordcount.c (sizes scaled like those above)        *)
(***************************************************************************)
\* enum MAX_WORD_LEN = 63: below hyperopt's MAX_WORD - 1, as in the source
MAX_WORD_LEN == 2
\* enum INITIAL_CAP = 1 << 12
INITIAL_CAP == 2
\* main: a worker's arena is at least (1 << 20) bytes
ARENA_MIN == 16
\* main: files below (1 << 16) bytes get one worker
SMALL_FILE == 4

\* FNV_OFFSET 14695981039346656037 = 0xcbf29ce484222325 and
\* FNV_PRIME 1099511628211 = 0x100000001b3, little-endian bytes
FNV_OFFSET == <<37, 35, 34, 132, 228, 156, 242, 203>>
FNV_PRIME == <<179, 1, 0, 0, 0, 1, 0, 0>>

\* hash = (hash ^ c) * FNV_PRIME
FnvStep(hash, c) ==
    Mul64(<<Xor8(hash[1], c), hash[2], hash[3], hash[4],
            hash[5], hash[6], hash[7], hash[8]>>, FNV_PRIME)

\* ((c | 32) - 'a') < 26u, on unsigned
is_alpha(c) == Or20(c) - 97 >= 0 /\ Or20(c) - 97 < 26

\* Entry {key, count, hash}; bytes is the string key points to
RefNullEntry ==
    [key |-> NullPtr, bytes |-> <<>>, count |-> 0,
     hash |-> <<0, 0, 0, 0, 0, 0, 0, 0>>]

\* table_init(t, cap, arena_cap); err is what tokenize returns for the table
table_init(cap, arena_cap) ==
    [entries |-> [k \in 1..cap |-> RefNullEntry], cap |-> cap, len |-> 0,
     total |-> 0, arena_used |-> 0, arena_cap |-> arena_cap, err |-> 0]

\* wordcount.c's table_grow
RECURSIVE RefGrowCopy(_, _, _, _)
RefGrowCopy(old, i, new_ent, new_cap) ==
    IF i >= Len(old) THEN new_ent
    ELSE LET e == old[i + 1]
             RECURSIVE Free(_)
             Free(idx) == IF new_ent[idx + 1].key = NullPtr THEN idx
                          ELSE Free((idx + 1) % new_cap)
         IN  IF e.key = NullPtr THEN RefGrowCopy(old, i + 1, new_ent, new_cap)
             ELSE RefGrowCopy(old, i + 1,
                              [new_ent EXCEPT ![Free(SlotOf(e.hash, new_cap)) + 1] = e],
                              new_cap)

ref_table_grow(t) ==
    [t EXCEPT !.entries = RefGrowCopy(t.entries, 0,
                                      [k \in 1..(t.cap * 2) |-> RefNullEntry],
                                      t.cap * 2),
              !.cap = t.cap * 2]

\* table_add(t, word, len, hash); arena_alloc(&t->strings, len + 1, 1) fails
\* when the arena has no room, and table_add then returns -1
table_add(t, word, len, hash) ==
    LET t1 == IF t.len * 10 >= t.cap * 7 THEN ref_table_grow(t) ELSE t
        RECURSIVE Probe(_)
        Probe(idx) ==
            LET e == t1.entries[idx + 1]
            IN  IF e.key = NullPtr
                THEN IF t1.arena_used + len + 1 > t1.arena_cap
                     THEN [t1 EXCEPT !.err = -1]
                     ELSE [t1 EXCEPT
                              !.entries[idx + 1] =
                                  [key |-> <<"arena", t1.arena_used>>,
                                   bytes |-> SubSeq(word, 1, len),
                                   count |-> 1, hash |-> hash],
                              !.len = @ + 1, !.total = @ + 1,
                              !.arena_used = @ + len + 1]
                ELSE IF e.hash = hash /\ e.bytes = SubSeq(word, 1, len)
                THEN [t1 EXCEPT !.entries[idx + 1].count = @ + 1,
                                !.total = @ + 1]
                ELSE Probe((idx + 1) % t1.cap)
    IN  Probe(SlotOf(hash, t1.cap))

\* tokenize: p is the 0-based offset of the scan
RECURSIVE RefRun(_, _, _, _)
RefRun(data, p, hash, word) ==
    IF p < Len(data) /\ is_alpha(data[p + 1])
    THEN RefRun(data, p + 1, FnvStep(hash, Or20(data[p + 1])),
                IF Len(word) < MAX_WORD_LEN
                THEN Append(word, Or20(data[p + 1])) ELSE word)
    ELSE <<p, hash, word>>

RECURSIVE tokenize(_, _, _)
tokenize(t, data, p) ==
    IF p >= Len(data) THEN t
    ELSE IF ~is_alpha(data[p + 1]) THEN tokenize(t, data, p + 1)
    ELSE LET r == RefRun(data, p, FNV_OFFSET, <<>>)
             t1 == table_add(t, r[3], Len(r[3]), r[2])
         IN  IF t1.err < 0 THEN t1 ELSE tokenize(t1, data, r[1])

\* while (end < mf.size && is_alpha(mf.data[end])) end++; and the same for
\* start, up to end
RECURSIVE RefAdvance(_, _, _)
RefAdvance(data, p, limit) ==
    IF p < limit /\ is_alpha(data[p + 1]) THEN RefAdvance(data, p + 1, limit)
    ELSE p

\* main: worker i's <<start, end>>, i = 0 .. nworkers-1
RefRange(data, nworkers, i) ==
    LET chunk == Len(data) \div nworkers
        end0 == IF i = nworkers - 1 THEN Len(data) ELSE (i + 1) * chunk
        end == IF i < nworkers - 1 THEN RefAdvance(data, end0, Len(data))
               ELSE end0
        start == IF i > 0 THEN RefAdvance(data, i * chunk, end) ELSE i * chunk
    IN  <<start, end>>

\* main: size_t arena_size = (chunk / 4 > (1 << 20)) ? chunk / 4 : (1 << 20)
RefArenaSize(chunk) ==
    IF chunk \div 4 > ARENA_MIN THEN chunk \div 4 ELSE ARENA_MIN

\* The workers' tables after spawn_workers and join_workers
RefWorkers(data, nworkers) ==
    [k \in 1..nworkers |->
        LET r == RefRange(data, nworkers, k - 1)
        IN  tokenize(table_init(INITIAL_CAP,
                                RefArenaSize(Len(data) \div nworkers)),
                     SubSeq(data, r[1] + 1, r[2]), 0)]

\* merge_into, one source entry
RefMergeEntry(dst, e) ==
    LET d1 == IF dst.len * 10 >= dst.cap * 7 THEN ref_table_grow(dst) ELSE dst
        RECURSIVE Probe(_)
        Probe(idx) ==
            LET d == d1.entries[idx + 1]
            IN  IF d.key = NullPtr
                THEN [d1 EXCEPT !.entries[idx + 1] = e, !.len = @ + 1,
                                !.total = @ + e.count]
                ELSE IF d.hash = e.hash /\ d.bytes = e.bytes
                THEN [d1 EXCEPT !.entries[idx + 1].count = @ + e.count,
                                !.total = @ + e.count]
                ELSE Probe((idx + 1) % d1.cap)
    IN  Probe(SlotOf(e.hash, d1.cap))

RECURSIVE RefMergeSlots(_, _, _)
RefMergeSlots(dst, entries, i) ==
    IF i >= Len(entries) THEN dst
    ELSE IF entries[i + 1].key = NullPtr THEN RefMergeSlots(dst, entries, i + 1)
    ELSE RefMergeSlots(RefMergeEntry(dst, entries[i + 1]), entries, i + 1)

RECURSIVE merge_into(_, _)
merge_into(dst, workers) ==
    IF workers = <<>> THEN dst
    ELSE merge_into(RefMergeSlots(dst, Head(workers).entries, 0), Tail(workers))

\* main: merged_cap = INITIAL_CAP; while (merged_cap < total_unique * 2) ...
RECURSIVE RefMergedCap(_, _)
RefMergedCap(cap, total_unique) ==
    IF cap < total_unique * 2 THEN RefMergedCap(cap * 2, total_unique) ELSE cap

RECURSIVE RefSumLen(_)
RefSumLen(workers) ==
    IF workers = <<>> THEN 0 ELSE Head(workers).len + RefSumLen(Tail(workers))

\* wordcount.c's main on a file of bytes data on a machine of ncpu
\* processors: the exit status and the "Words: total, unique" line
wordcount_main(data, ncpu) ==
    IF Len(data) = 0 THEN [rc |-> 1, total |-> 0, unique |-> 0]
    ELSE LET nworkers == IF Len(data) < SMALL_FILE THEN 1 ELSE ncpu
             workers == RefWorkers(data, nworkers)
             merged == merge_into(
                          table_init(RefMergedCap(INITIAL_CAP, RefSumLen(workers)), 0),
                          workers)
         IN  IF \E k \in 1..nworkers : workers[k].err # 0
             THEN [rc |-> 1, total |-> 0, unique |-> 0]
             ELSE [rc |-> 0, total |-> merged.total, unique |-> merged.len]

(***************************************************************************)
(* Inputs                                                                  *)
(***************************************************************************)
\* 'a', 'A', 'B', ' '
Alphabet == {97, 65, 66, 32}

SeqsUpTo(A, n) == UNION {[1..k -> A] : k \in 0..n}

\* Buffers of the examples of the specification and of README.md
\* "it's a cat. A CAT!"
BufCat == <<105, 116, 39, 115, 32, 97, 32, 99, 97, 116, 46, 32,
            65, 32, 67, 65, 84, 33>>
\* "Apple apple APPLE"
BufApple == <<65, 112, 112, 108, 101, 32, 97, 112, 112, 108, 101, 32,
              65, 80, 80, 76, 69>>
\* "the the the the "
BufThe == <<116, 104, 101, 32, 116, 104, 101, 32, 116, 104, 101, 32,
            116, 104, 101, 32>>
\* "caf\xC3\xA9 CAF\xC3\x89" (UTF-8)
BufCafe == <<99, 97, 102, 195, 169, 32, 67, 65, 70, 195, 137>>
\* "a b c d f a b c d f": more than TOP_N * HEAP_FACTOR distinct words, all
\* with the same count
BufTies == <<97, 32, 98, 32, 99, 32, 100, 32, 102, 32,
             97, 32, 98, 32, 99, 32, 100, 32, 102>>

\* "aaaaa aaaab": two runs longer than both programs' word buffers, alike in
\* the bytes both keep
BufLong == <<97, 97, 97, 97, 97, 32, 97, 97, 97, 97, 98>>

ExampleBuffers == {BufCat, BufApple, BufThe, BufCafe, BufTies, BufLong}

Buffers == SeqsUpTo(Alphabet, MaxLen) \cup ExampleBuffers

FairBuffers == SeqsUpTo(Alphabet, MaxFairLen) \cup {BufCat}

(***************************************************************************)
(* State                                                                   *)
(***************************************************************************)
VARIABLES
    data,        \* the file's bytes (file_size = Len(data))
    nthreads,    \* NUM_THREADS
    pc,          \* where main is
    cuts,        \* cuts[0 .. NUM_THREADS]
    tables,      \* tables[0 .. NUM_THREADS-1]
    launched,    \* the i of main's pthread_create loop
    wpc,         \* where each worker thread is
    joined,      \* the i of main's pthread_join loop
    global,      \* merge_tables' result: global, total_unique, total_words
    top_words,   \* top_words[0 .. top_count-1]
    out,         \* what the report holds: Total, Unique, the top list
    ref,         \* what wordcount.c makes of the same file, once it has run
    debug,       \* the build: TRUE when compiled with -DDEBUG
    insert_new,  \* DEBUG builds: the global counter uint64_t insert_new
    writers,     \* DEBUG builds: the workers that have written insert_new
    wtabs,       \* two tables driven directly by inserts, grows and a merge
    inserted,    \* the words passed to table_insert_hashed, for each of them
    last,        \* the last operation on them and the table it was applied to
    merged,      \* merge_tables of the two, once made
    drop,        \* the drop_leading argument of the two tokenizers run alone
    simd_t,      \* the table process_chunk_avx512 fills when run alone
    scalar_t,    \* the table process_chunk fills when run alone
    tokdone,     \* which of the two has run
    ptab,        \* the table pool_alloc serves when run alone
    malloc_cap,  \* its malloc_cap, the room of the malloc_words array
    pool_mem,    \* the bytes of its string_pool, -1 where nothing was written
    heap_mem,    \* the bytes of each block malloc returned for it
    spans,       \* what pool_alloc returned and what was copied there
    frees,       \* the pointers passed to free() at teardown, in order
    ppc,         \* where that run is: "run", "exit1" or "freed"
    rpc,         \* wordcount.c: where its main is
    nworkers,    \* wordcount.c: main's nworkers
    spawn_i,     \* wordcount.c: the i of spawn_workers' loop
    g_nthreads,  \* wordcount.c: the number of threads join_workers waits for
    rthreads,    \* wordcount.c: the state of each worker thread
    werr,        \* wordcount.c: the workers whose err is set
    join_i,      \* wordcount.c: the i of join_workers' loop
    free_i,      \* wordcount.c: the i of cleanup's table_free loop
    rfreed,      \* wordcount.c: the workers whose table and arena are freed
    main_rc,     \* wordcount.c: main's rc
    units,       \* overlapping-chunk revision: units[0 .. NUM_THREADS-1]
    utabs,       \* overlapping-chunk revision: its tables[]
    udone,       \* overlapping-chunk revision: the workers that have returned
    freed        \* the i whose tables[i] main's teardown has released

mainvars == <<data, nthreads, pc, cuts, tables, launched, wpc, joined, global,
              top_words, out>>
refvars == <<ref>>
dbgvars == <<debug, insert_new, writers>>
tabvars == <<wtabs, inserted, last, merged>>
tokvars == <<drop, simd_t, scalar_t, tokdone>>
poolvars == <<ptab, malloc_cap, pool_mem, heap_mem, spans, frees, ppc>>
thrvars == <<rpc, nworkers, spawn_i, g_nthreads, rthreads, werr, join_i,
             free_i, rfreed, main_rc>>
ovlvars == <<units, utabs, udone>>
memvars == <<freed>>
sidevars == <<poolvars, thrvars, ovlvars, memvars>>
vars == <<mainvars, tokvars, refvars, dbgvars, tabvars, sidevars>>

Threads == 0..(nthreads - 1)

NoGlobal == [entries |-> <<>>, capacity |-> 0, size |-> 0, total_words |-> 0]
NoOut == [total |-> 0, unique |-> 0, top |-> <<>>]
NoRef == [rc |-> -1, total |-> 0, unique |-> 0]
NoOp == [op |-> "none", i |-> 0, before |-> InitTable(0)]

\* pool_alloc is not run alone
PoolOff ==
    /\ ptab = InitTable(0)
    /\ malloc_cap = 0
    /\ pool_mem = <<>>
    /\ heap_mem = <<>>
    /\ spans = <<>>
    /\ frees = <<>>
    /\ ppc = "off"

\* wordcount.c's threads are not followed
ThreadsOff ==
    /\ rpc = "off"
    /\ nworkers = 0
    /\ spawn_i = 0
    /\ g_nthreads = 0
    /\ rthreads = <<>>
    /\ werr = {}
    /\ join_i = 0
    /\ free_i = 0
    /\ rfreed = {}
    /\ main_rc = 1

\* The overlapping-chunk revision is not run
OverlapOff ==
    /\ units = <<>>
    /\ utabs = <<>>
    /\ udone = {}

\* The parts that are modelled on their own are at rest
InitSide == PoolOff /\ ThreadsOff /\ OverlapOff /\ freed = {}

Init ==
    /\ InitSide
    /\ data \in Buffers
    /\ nthreads \in 1..MaxThreads
    /\ pc = "open"
    /\ cuts = <<>>
    /\ tables = <<>>
    /\ launched = 0
    /\ wpc = [i \in Threads |-> "none"]
    /\ joined = 0
    /\ global = NoGlobal
    /\ top_words = <<>>
    /\ out = NoOut
    /\ ref = NoRef
    /\ debug = FALSE
    /\ insert_new = 0
    /\ writers = {}
    /\ wtabs = <<>>
    /\ inserted = <<>>
    /\ last = NoOp
    /\ merged = NoGlobal
    /\ drop = 0
    /\ simd_t = InitTable(0)
    /\ scalar_t = InitTable(0)
    /\ tokdone = {}

(***************************************************************************)
(* main                                                                    *)
(***************************************************************************)
\* open, fstat, mmap(NULL, file_size, ...): mmap of length 0 fails with
\* EINVAL, and main prints the error and returns 1.
MapFile ==
    /\ pc = "open"
    /\ pc' = IF Len(data) = 0 THEN "exit1" ELSE "cuts"
    /\ UNCHANGED <<tokvars, refvars, sidevars, dbgvars, tabvars>>
    /\ UNCHANGED <<data, nthreads, cuts, tables, launched, wpc, joined,
                   global, top_words, out>>

Cuts ==
    /\ pc = "cuts"
    /\ cuts' = ComputeCuts(data, nthreads)
    /\ pc' = "init"
    /\ UNCHANGED <<tokvars, refvars, sidevars, dbgvars, tabvars>>
    /\ UNCHANGED <<data, nthreads, tables, launched, wpc, joined, global,
                   top_words, out>>

InitTables ==
    /\ pc = "init"
    /\ tables' = [i \in Threads |-> InitTable(cuts[i + 2] - cuts[i + 1])]
    /\ pc' = "launch"
    /\ UNCHANGED <<tokvars, refvars, sidevars, dbgvars, tabvars>>
    /\ UNCHANGED <<data, nthreads, cuts, launched, wpc, joined, global,
                   top_words, out>>

\* units[i] = ...; pthread_create(&threads[i], NULL, worker, &units[i]);
Launch ==
    /\ pc = "launch"
    /\ launched < nthreads
    /\ wpc' = [wpc EXCEPT ![launched] = "created"]
    /\ launched' = launched + 1
    /\ UNCHANGED <<tokvars, refvars, sidevars, dbgvars, tabvars>>
    /\ UNCHANGED <<data, nthreads, pc, cuts, tables, joined, global,
                   top_words, out>>

\* main: pthread_barrier_wait(&barrier)
MainArrive ==
    /\ pc = "launch"
    /\ launched = nthreads
    /\ pc' = "barrier"
    /\ UNCHANGED <<tokvars, refvars, sidevars, dbgvars, tabvars>>
    /\ UNCHANGED <<data, nthreads, cuts, tables, launched, wpc, joined,
                   global, top_words, out>>

\* A faulty barrier, which lets a party through only while all the others
\* are still waiting at it
BarrierOpenWhileAllWait ==
    /\ pc \notin {"open", "cuts", "init", "launch", "exit1"}
    /\ \A i \in Threads : wpc[i] = "waiting"

\* The barrier of NUM_THREADS + 1 parties opens when all have arrived
BarrierOpen ==
    /\ pc \notin {"open", "cuts", "init", "launch", "exit1"}
    /\ \A i \in Threads : wpc[i] \in {"waiting", "returned"}

MainPass ==
    /\ pc = "barrier"
    /\ BarrierOpen
    /\ pc' = "join"
    /\ UNCHANGED <<tokvars, refvars, sidevars, dbgvars, tabvars>>
    /\ UNCHANGED <<data, nthreads, cuts, tables, launched, wpc, joined,
                   global, top_words, out>>

\* A faulty Join, which returns before the thread has ended
JoinWithoutWaiting ==
    /\ pc = "join"
    /\ joined < nthreads
    /\ joined' = joined + 1
    /\ UNCHANGED <<tokvars, refvars, sidevars, dbgvars, tabvars>>
    /\ UNCHANGED <<data, nthreads, pc, cuts, tables, launched, wpc, global,
                   top_words, out>>

\* pthread_join(threads[i], NULL)
Join ==
    /\ pc = "join"
    /\ joined < nthreads
    /\ wpc[joined] = "returned"
    /\ joined' = joined + 1
    /\ UNCHANGED <<tokvars, refvars, sidevars, dbgvars, tabvars>>
    /\ UNCHANGED <<data, nthreads, pc, cuts, tables, launched, wpc, global,
                   top_words, out>>

\* tables[0], ..., tables[NUM_THREADS-1] as a sequence
TableSeq == [k \in 1..nthreads |-> tables[k - 1]]

Merge ==
    /\ pc = "join"
    /\ joined = nthreads
    /\ global' = merge_tables(TableSeq)
    /\ pc' = "topk"
    /\ UNCHANGED <<tokvars, refvars, sidevars, dbgvars, tabvars>>
    /\ UNCHANGED <<data, nthreads, cuts, tables, launched, wpc, joined,
                   top_words, out>>

TopK ==
    /\ pc = "topk"
    /\ top_words' = SelectTop(global)
    /\ pc' = "report"
    /\ UNCHANGED <<tokvars, refvars, sidevars, dbgvars, tabvars>>
    /\ UNCHANGED <<data, nthreads, cuts, tables, launched, wpc, joined,
                   global, out>>

\* The console summary and the results file
Output ==
    /\ pc = "report"
    /\ out' = [total |-> global.total_words, unique |-> global.size,
               top |-> Report(top_words)]
    /\ pc' = "done"
    /\ UNCHANGED <<tokvars, refvars, sidevars, dbgvars, tabvars>>
    /\ UNCHANGED <<data, nthreads, cuts, tables, launched, wpc, joined,
                   global, top_words>>

\* A faulty order of main's last steps: the teardown before the report
TeardownBeforeReport == "report"

\* Where main is when it reaches the teardown: past the console summary and
\* the results file
TeardownAt == "done"

\* main's teardown: for every i the blocks of malloc_words, the array, the
\* entries and the string pool of tables[i] are freed, then global and
\* top_words; return 0
Teardown ==
    /\ pc = TeardownAt
    /\ freed' = Threads
    /\ pc' = "exit0"
    /\ UNCHANGED <<tokvars, refvars, poolvars, thrvars, ovlvars, dbgvars,
                   tabvars>>
    /\ UNCHANGED <<data, nthreads, cuts, tables, launched, wpc, joined,
                   global, top_words, out>>

(***************************************************************************)
(* worker                                                                  *)
(***************************************************************************)
\* pthread_barrier_wait(&barrier)
WorkerArrive(i) ==
    /\ wpc[i] = "created"
    /\ wpc' = [wpc EXCEPT ![i] = "waiting"]
    /\ UNCHANGED <<tokvars, refvars, sidevars, dbgvars, tabvars>>
    /\ UNCHANGED <<data, nthreads, pc, cuts, tables, launched, joined,
                   global, top_words, out>>

\* table_insert_hashed under #ifdef DEBUG: insert_new++, once for each of the
\* n entries worker i creates. The counter is a plain global that every
\* worker increments without a lock or an atomic: while another worker is
\* past the barrier and has not returned, increments can be lost, and any
\* number from 1 to n may remain of these n.
DebugCounters(i, n) ==
    IF debug /\ n > 0
    THEN /\ writers' = writers \cup {i}
         /\ IF \E j \in Threads \ {i} : wpc[j] = "waiting"
            THEN insert_new' \in (insert_new + 1)..(insert_new + n)
            ELSE insert_new' = insert_new + n
    ELSE UNCHANGED <<insert_new, writers>>

\* process_chunk_avx512(unit->table, unit->data + unit->start,
\*                      unit->end - unit->start, unit->drop_leading); return
WorkerRun(i) ==
    /\ wpc[i] = "waiting"
    /\ BarrierOpen
    /\ tables' = [tables EXCEPT ![i] =
                     process_chunk_avx512(tables[i],
                                          Slice(data, cuts[i + 1], cuts[i + 2]),
                                          0)]
    /\ wpc' = [wpc EXCEPT ![i] = "returned"]
    /\ DebugCounters(i, tables'[i].size)
    /\ UNCHANGED <<tokvars, refvars, sidevars, debug, tabvars>>
    /\ UNCHANGED <<data, nthreads, pc, cuts, launched, joined, global,
                   top_words, out>>

\* The reference is run on the same file after the hyperoptimized counter
\* has ended, on a machine of any number of processors
RefMain ==
    /\ pc \in {"done", "exit1"}
    /\ ref = NoRef
    /\ \E ncpu \in 1..MaxThreads : ref' = wordcount_main(data, ncpu)
    /\ UNCHANGED <<mainvars, tokvars, dbgvars, tabvars, sidevars>>

Next ==
    \/ RefMain
    \/ MapFile \/ Cuts \/ InitTables \/ Launch \/ MainArrive \/ MainPass
    \/ Join \/ Merge \/ TopK \/ Output \/ Teardown
    \/ \E i \in Threads : WorkerArrive(i)
    \/ \E i \in Threads : WorkerRun(i)

Spec == Init /\ [][Next]_vars

\* The steps of the main thread up to the last join, and the step of worker
\* i up to the barrier
MainToJoin ==
    \/ MapFile \/ Cuts \/ InitTables \/ Launch \/ MainArrive \/ MainPass
    \/ Join

WorkerToBarrier(i) ==
    /\ i \in Threads
    /\ WorkerArrive(i)

\* What WorkerRun(i) does to wpc and what Merge does to pc; such a step is
\* possible exactly when WorkerRun(i), or Merge, is
WorkerReturns(i) ==
    /\ i \in Threads
    /\ wpc[i] = "waiting"
    /\ BarrierOpen
    /\ wpc' = [wpc EXCEPT ![i] = "returned"]

MergeBegins ==
    /\ pc = "join"
    /\ joined = nthreads
    /\ pc' = "topk"

\* The runs checked for termination: the shorter buffers, in the release and
\* in the DEBUG build
InitFair ==
    /\ InitSide
    /\ data \in FairBuffers
    /\ nthreads \in 1..MaxThreads
    /\ pc = "open"
    /\ cuts = <<>>
    /\ tables = <<>>
    /\ launched = 0
    /\ wpc = [i \in Threads |-> "none"]
    /\ joined = 0
    /\ global = NoGlobal
    /\ top_words = <<>>
    /\ out = NoOut
    /\ ref = NoRef
    /\ debug \in BOOLEAN
    /\ insert_new = 0
    /\ writers = {}
    /\ wtabs = <<>>
    /\ inserted = <<>>
    /\ last = NoOp
    /\ merged = NoGlobal
    /\ drop = 0
    /\ simd_t = InitTable(0)
    /\ scalar_t = InitTable(0)
    /\ tokdone = {}

\* The operating system schedules every runnable thread again and again:
\* a thread whose next step stays possible takes it
SpecFair ==
    /\ InitFair
    /\ [][Next]_vars
    /\ WF_vars(MainToJoin)
    /\ WF_pc(MergeBegins)
    /\ \A i \in 0..(MaxThreads - 1) :
          WF_vars(WorkerToBarrier(i)) /\ WF_wpc(WorkerReturns(i))


(***************************************************************************)
(* The two tokenizers run alone on one buffer, each from an empty table    *)
(***************************************************************************)
\* 'B', ' ', 0xA9 (a UTF-8 continuation byte)
TokAlphabet == {66, 32, 169}

TokBuffers == SeqsUpTo(TokAlphabet, MaxTokLen) \cup ExampleBuffers

InitTok ==
    /\ InitSide
    /\ data \in TokBuffers
    /\ drop \in {0, 1}
    /\ simd_t = InitTable(Len(data))
    /\ scalar_t = InitTable(Len(data))
    /\ tokdone = {}
    /\ nthreads = 1
    /\ pc = "off"
    /\ cuts = <<>>
    /\ tables = <<>>
    /\ launched = 0
    /\ wpc = [i \in Threads |-> "none"]
    /\ joined = 0
    /\ global = NoGlobal
    /\ top_words = <<>>
    /\ out = NoOut
    /\ ref = NoRef
    /\ debug = FALSE
    /\ insert_new = 0
    /\ writers = {}
    /\ wtabs = <<>>
    /\ inserted = <<>>
    /\ last = NoOp
    /\ merged = NoGlobal

RunAvx512 ==
    /\ pc = "off"
    /\ "avx512" \notin tokdone
    /\ simd_t' = process_chunk_avx512(simd_t, data, drop)
    /\ tokdone' = tokdone \cup {"avx512"}
    /\ UNCHANGED <<mainvars, refvars, sidevars, dbgvars, tabvars, drop, scalar_t>>

RunScalar ==
    /\ pc = "off"
    /\ "scalar" \notin tokdone
    /\ scalar_t' = process_chunk(scalar_t, data, drop)
    /\ tokdone' = tokdone \cup {"scalar"}
    /\ UNCHANGED <<mainvars, refvars, sidevars, dbgvars, tabvars, drop, simd_t>>

NextTok == RunAvx512 \/ RunScalar

SpecTok == InitTok /\ [][NextTok]_vars


(***************************************************************************)
(* Two tables driven directly: any sequence of table_insert_hashed and     *)
(* table_grow on tables of any initial capacity, and merge_tables of them  *)
(***************************************************************************)
\* A table as main initialises it, with capacity a given power of two
TableOfCapacity(c) ==
    [InitTable(0) EXCEPT !.entries = [k \in 1..c |-> NullEntry],
                         !.capacity = c]

\* "a" and "bb", whose hashes agree in their low four bits, "ab", and MAX_WORD
\* letters, which table_insert_hashed rejects
TabWords == {<<97>>, <<98, 98>>, <<97, 98>>, <<97, 97, 97, 97>>}

InitTab ==
    /\ InitSide
    /\ \E c \in {1, 2, 4} :
          wtabs = <<TableOfCapacity(c), TableOfCapacity(INITIAL_CAPACITY)>>
    /\ inserted = [k \in 1..2 |-> <<>>]
    /\ last = NoOp
    /\ merged = NoGlobal
    /\ data = <<>>
    /\ nthreads = 2
    /\ pc = "off"
    /\ cuts = <<>>
    /\ tables = <<>>
    /\ launched = 0
    /\ wpc = [i \in Threads |-> "none"]
    /\ joined = 0
    /\ global = NoGlobal
    /\ top_words = <<>>
    /\ out = NoOut
    /\ ref = NoRef
    /\ debug = FALSE
    /\ insert_new = 0
    /\ writers = {}
    /\ drop = 0
    /\ simd_t = InitTable(0)
    /\ scalar_t = InitTable(0)
    /\ tokdone = {}

\* table_insert_hashed(&wtabs[k], w, len, hash, fp) as the tokenizers call
\* it, with the hash and the fingerprint of the word's bytes
TabInsert(k, w) ==
    /\ last.op # "merge"
    /\ Len(inserted[1]) + Len(inserted[2]) < MaxInserts
    /\ wtabs' = [wtabs EXCEPT ![k] =
                    table_insert_hashed(@, w, Len(w), hash_word(w),
                                        Fp16(hash_word(w)))]
    /\ inserted' = [inserted EXCEPT ![k] = Append(@, w)]
    /\ last' = [op |-> "insert", i |-> k, before |-> wtabs[k]]
    /\ UNCHANGED <<mainvars, tokvars, refvars, sidevars, dbgvars, merged>>

\* table_grow(&wtabs[k])
TabGrow(k) ==
    /\ last.op # "merge"
    /\ wtabs[k].capacity <= MaxCapacity
    /\ wtabs' = [wtabs EXCEPT ![k] = table_grow(@)]
    /\ last' = [op |-> "grow", i |-> k, before |-> wtabs[k]]
    /\ UNCHANGED <<mainvars, tokvars, refvars, sidevars, dbgvars, inserted, merged>>

\* merge_tables with tables[] = wtabs, after which the tables are left alone
TabMerge ==
    /\ last.op # "merge"
    /\ merged' = merge_tables(wtabs)
    /\ last' = [op |-> "merge", i |-> 0, before |-> InitTable(0)]
    /\ UNCHANGED <<mainvars, tokvars, refvars, sidevars, dbgvars, wtabs, inserted>>

NextTab ==
    \/ \E k \in 1..2, w \in TabWords : TabInsert(k, w)
    \/ \E k \in 1..2 : TabGrow(k)
    \/ TabMerge

SpecTab == InitTab /\ [][NextTab]_vars


(***************************************************************************)
(* Properties                                                              *)
(***************************************************************************)
\* The number of maximal runs of ASCII letters in buf: the positions where a
\* run starts.
NumRuns(buf) ==
    Cardinality({i \in 1..Len(buf) :
                    /\ is_ascii_letter(buf[i])
                    /\ (i = 1 \/ ~is_ascii_letter(buf[i - 1]))})

RECURSIVE SumCounts(_)
SumCounts(es) == IF es = <<>> THEN 0 ELSE Head(es).count + SumCounts(Tail(es))

\* The words of an entries array and the count each has, all slots that hold
\* the word added up
WordsOf(entries) == {e.bytes : e \in {entries[k] : k \in 1..Len(entries)}} \ {<<>>}

EntriesFor(entries, w) ==
    LET RECURSIVE L(_)
        L(i) == IF i = 0 THEN <<>>
                ELSE IF entries[i].word # NullPtr /\ entries[i].bytes = w
                THEN Append(L(i - 1), entries[i])
                ELSE L(i - 1)
    IN  L(Len(entries))

CountOf(entries, w) == SumCounts(EntriesFor(entries, w))

SameCounts(ea, eb) ==
    /\ WordsOf(ea) = WordsOf(eb)
    /\ \A w \in WordsOf(ea) : CountOf(ea, w) = CountOf(eb, w)
    /\ Len(LiveEntries(ea)) = Len(LiveEntries(eb))

\* C1: when main has finished, the total it reports is the number of maximal
\* runs of ASCII letters of the buffer, for every buffer and worker count.
C1_TotalIsNumRuns == pc = "done" => out.total = NumRuns(data)

\* A run with two workers in which the letter run at the nominal cut pushed
\* the cut forward, and more than one word was counted
C1_Witness ==
    /\ pc = "done"
    /\ nthreads = 2
    /\ cuts[2] > Len(data) \div 2
    /\ cuts[2] < Len(data)
    /\ out.total >= 2

TableAddsUp(entries, total_words, size) ==
    /\ SumCounts(LiveEntries(entries)) = total_words
    /\ Len(LiveEntries(entries)) = size

\* C2: in every per-worker table at every moment, and in the global table
\* once merge_tables has built it, the counts of the live entries add up to
\* total_words and the number of live entries is size (total_unique); the
\* report carries these two numbers.
C2_CountsAddUp ==
    /\ \A i \in DOMAIN tables :
          TableAddsUp(tables[i].entries, tables[i].total_words, tables[i].size)
    /\ pc \in {"topk", "report", "done"} =>
          TableAddsUp(global.entries, global.total_words, global.size)
    /\ pc = "done" =>
          TableAddsUp(global.entries, out.total, out.unique)

\* Three workers have each inserted, one of them the same word twice, and
\* the merged table found a word in more than one source table
C2_Witness ==
    /\ pc = "done"
    /\ nthreads = 3
    /\ \A i \in DOMAIN tables : tables[i].size >= 1
    /\ \E i \in DOMAIN tables : tables[i].total_words > tables[i].size
    /\ global.size < SumSizes(TableSeq)

\* The letter runs of buf that the tokenizers count when the leading run is
\* dropped (drop_leading = 1 and the buffer starts with a letter)
RunsCounted(buf, drop_leading) ==
    IF drop_leading = 1 /\ Len(buf) > 0 /\ is_ascii_letter(buf[1])
    THEN NumRuns(buf) - 1 ELSE NumRuns(buf)

\* C3: run on the same bytes from empty tables, process_chunk_avx512 and
\* process_chunk leave the same words with the same counts and the same
\* total_words, and that total counts every letter run once, whichever
\* window boundaries the run crosses.
C3_SimdEqualsScalar ==
    tokdone = {"avx512", "scalar"} =>
        /\ SameCounts(simd_t.entries, scalar_t.entries)
        /\ simd_t.total_words = scalar_t.total_words
        /\ simd_t.size = scalar_t.size
        /\ simd_t.total_words = RunsCounted(data, drop)

\* One run that starts in the first window, fills the second and ends in the
\* scalar tail, or one that crosses from the first window into the second
C3_Witness ==
    /\ tokdone = {"avx512", "scalar"}
    /\ drop = 0
    /\ Len(data) = 2 * WINDOW
    /\ ~is_ascii_letter(data[1])
    /\ is_ascii_letter(data[WINDOW]) /\ is_ascii_letter(data[WINDOW + 1])
    /\ ~is_ascii_letter(data[2 * WINDOW])
    /\ simd_t.total_words = 1


\* What main reports for buffer buf with n workers: cuts, one tokenizer run
\* per slice, merge, top-K, report
EngineTables(buf, n) ==
    LET c == ComputeCuts(buf, n)
    IN  [k \in 1..n |->
            process_chunk_avx512(InitTable(c[k + 1] - c[k]),
                                 Slice(buf, c[k], c[k + 1]), 0)]

EngineGlobal(buf, n) == merge_tables(EngineTables(buf, n))

EngineOut(buf, n) ==
    LET g == EngineGlobal(buf, n)
    IN  [total |-> g.total_words, unique |-> g.size,
         top |-> Report(SelectTop(g))]

\* C4: what main reports with any number of workers is what it reports
\* with one worker on the same buffer: total, unique count and the ordered
\* top sequence.
C4_SameAsOneWorker ==
    (pc = "done" /\ nthreads > 1) => out = EngineOut(data, 1)

\* Two workers on a buffer of five words of equal count: the totals agree
\* with the one-worker run and the top sequence does not
C4_Witness ==
    /\ pc = "done"
    /\ nthreads = 2
    /\ global.size > TOP_N * HEAP_FACTOR
    /\ out.total = EngineOut(data, 1).total
    /\ out.unique = EngineOut(data, 1).unique
    /\ out.top # EngineOut(data, 1).top

\* The letter runs of buf as <<first, last>> index pairs
Runs(buf) ==
    {r \in (1..Len(buf)) \X (1..Len(buf)) :
        /\ r[1] <= r[2]
        /\ \A k \in r[1]..r[2] : is_ascii_letter(buf[k])
        /\ (r[1] = 1 \/ ~is_ascii_letter(buf[r[1] - 1]))
        /\ (r[2] = Len(buf) \/ ~is_ascii_letter(buf[r[2] + 1]))}

Lower(c) == IF c >= 65 /\ c <= 90 THEN c + 32 ELSE c

\* The first cap bytes of run r of buf, lowercased
StoredWord(buf, r, cap) ==
    LET n == IF r[2] - r[1] + 1 < cap THEN r[2] - r[1] + 1 ELSE cap
    IN  [k \in 1..n |-> Lower(buf[r[1] + k - 1])]

\* Table t holds one token per run of buf, each stored cut to cap bytes
TokenPerRun(t, buf, cap) ==
    LET words == {StoredWord(buf, r, cap) : r \in Runs(buf)}
    IN  /\ t.total_words = Cardinality(Runs(buf))
        /\ t.size = Cardinality(words)
        /\ WordsOf(t.entries) = words
        /\ \A w \in words :
              CountOf(t.entries, w) =
                  Cardinality({r \in Runs(buf) : StoredWord(buf, r, cap) = w})

HasLongRun(buf) == \E r \in Runs(buf) : r[2] - r[1] + 1 > MAX_WORD

\* C5 as stated: a letter run longer than MAX_WORD is one token, and the
\* word stored for it is the first MAX_WORD lowercased bytes of the run.
C5_StoresFirstMaxWord ==
    (tokdone = {"avx512", "scalar"} /\ drop = 0 /\ HasLongRun(data)) =>
        /\ TokenPerRun(simd_t, data, MAX_WORD)
        /\ TokenPerRun(scalar_t, data, MAX_WORD)

\* C5, amended: a letter run longer than MAX_WORD is one token (one more in
\* total_words, one word), and the word stored for it is the first
\* MAX_WORD - 1 lowercased bytes of the run; the letters past them start no
\* further token.  Both tokenizers.
C5_StoresFirstMaxWordLess1 ==
    (tokdone = {"avx512", "scalar"} /\ drop = 0 /\ HasLongRun(data)) =>
        /\ TokenPerRun(simd_t, data, MAX_WORD - 1)
        /\ TokenPerRun(scalar_t, data, MAX_WORD - 1)

\* A run longer than MAX_WORD that crosses the window boundary, after a
\* shorter word
C5_Witness ==
    /\ tokdone = {"avx512", "scalar"}
    /\ drop = 0
    /\ \E r \in Runs(data) : r[1] > 2 /\ r[2] - r[1] + 1 > MAX_WORD
                             /\ r[1] <= WINDOW /\ r[2] > WINDOW
    /\ simd_t.total_words = 2
    /\ simd_t.size = 2

LowerAll(buf) == [k \in 1..Len(buf) |-> Lower(buf[k])]
UpperAll(buf) ==
    [k \in 1..Len(buf) |-> IF buf[k] >= 97 /\ buf[k] <= 122 THEN buf[k] - 32
                           ELSE buf[k]]

OnlyLowercase(entries) ==
    \A w \in WordsOf(entries) : \A k \in 1..Len(w) : w[k] >= 97 /\ w[k] <= 122

\* C6: the report for a buffer is the report for the same buffer with every
\* letter lowercased, and for it with every letter uppercased; the merged
\* tables hold the same words with the same counts; every stored word is
\* made of a-z only; "Apple apple APPLE" is apple: 3.
C6_CaseInsensitive ==
    /\ \A i \in DOMAIN tables : OnlyLowercase(tables[i].entries)
    /\ pc = "done" =>
          /\ OnlyLowercase(global.entries)
          /\ out = EngineOut(LowerAll(data), nthreads)
          /\ out = EngineOut(UpperAll(data), nthreads)
          /\ SameCounts(global.entries,
                        EngineGlobal(LowerAll(data), nthreads).entries)
          /\ data = BufApple =>
                out = [total |-> 3, unique |-> 1,
                       top |-> << <<(<<97, 112, 112>>), 3>> >>]

\* A buffer that writes one word in two cases, counted as one word
C6_Witness ==
    /\ pc = "done"
    /\ \E i, j \in 1..Len(data) :
          is_ascii_letter(data[i]) /\ data[j] = data[i] + 32
    /\ data # LowerAll(data)
    /\ out.unique = 1
    /\ out.total >= 2

\* Entries as the report prints them
Pairs(es) == [k \in 1..Len(es) |-> <<es[k].bytes, es[k].count>>]

\* A sequence of <<word, count>> pairs in report order: count descending,
\* equal counts by ascending bytes
InReportOrder(ps) ==
    \A k \in 1..(Len(ps) - 1) :
        \/ ps[k][2] > ps[k + 1][2]
        \/ ps[k][2] = ps[k + 1][2] /\ StrCmp(ps[k][1], ps[k + 1][1]) < 0

\* C7: the top sequence of the report has at most TOP_N entries, in
\* descending order of count, entries of equal count in ascending byte
\* order of the word; top_words itself is in that order.
C7_TopOrdered ==
    /\ pc \in {"report", "done"} => InReportOrder(Pairs(top_words))
    /\ pc = "done" => Len(out.top) <= TOP_N /\ InReportOrder(out.top)

\* A report of TOP_N words of equal count, cut from a longer top_words
C7_Witness ==
    /\ pc = "done"
    /\ Len(out.top) = TOP_N
    /\ Len(top_words) > TOP_N
    /\ out.top[1][2] = out.top[TOP_N][2]

\* The first k entries of the full sort of the live entries
SortFirstK(entries, k) ==
    LET sorted == qsort(LiveEntries(entries))
    IN  SubSeq(sorted, 1, IF Len(sorted) < k THEN Len(sorted) ELSE k)

\* C8: for the merged table and every k up to TOP_N, the heap selection
\* (heap_push of every live entry into a heap of capacity k, then qsort)
\* is the first k entries of the full sort.
C8_HeapEqualsSort ==
    pc \in {"topk", "report", "done"} =>
        \A k \in 1..TOP_N :
            Pairs(HeapTopK(global.entries, k)) = Pairs(SortFirstK(global.entries, k))

\* main took the heap path and top_words is not the head of the full sort
C8_Witness ==
    /\ pc = "report"
    /\ global.size > TOP_N * HEAP_FACTOR
    /\ Len(top_words) = TOP_N
    /\ Pairs(top_words) # Pairs(SortFirstK(global.entries, TOP_N))

\* The permutations of 1..n
Perms(n) == {p \in [1..n -> 1..n] : \A i, j \in 1..n : i # j => p[i] # p[j]}

\* C9: merging the per-worker tables in any order gives the same number of
\* unique words, the same total and the same count for every word.
C9_MergeCommutes ==
    pc = "topk" =>
        \A p \in Perms(nthreads) :
            LET g == merge_tables([k \in 1..nthreads |-> TableSeq[p[k]]])
            IN  /\ g.size = global.size
                /\ g.total_words = global.total_words
                /\ SameCounts(g.entries, global.entries)

\* Three tables merged, with a word that two of them hold with different
\* counts
C9_Witness ==
    /\ pc = "topk"
    /\ nthreads = 3
    /\ \E i, j \in DOMAIN tables : \E w \in WordsOf(tables[i].entries) :
          /\ i # j
          /\ w \in WordsOf(tables[j].entries)
          /\ CountOf(tables[i].entries, w) # CountOf(tables[j].entries, w)

\* C10: a buffer with no letter run, the empty buffer included, is no
\* error: main does not take an error exit, and what it reports is total 0,
\* unique 0 and an empty top sequence.
C10_DegenerateIsNoError ==
    NumRuns(data) = 0 =>
        /\ pc # "exit1"
        /\ pc = "done" => out = [total |-> 0, unique |-> 0, top |-> <<>>]

\* main has left with status 1 on the empty buffer
C10_Witness == pc = "exit1" /\ Len(data) = 0


(***************************************************************************)
(* C11: whenever both programs have counted the same file, the reference   *)
(* wordcount.c and the hyperoptimized counter report the same total and    *)
(* the same number of unique words, runs longer than the stored-word caps  *)
(* included.                                                               *)
(***************************************************************************)
C11_SameTotalAndUnique ==
    (pc = "done" /\ ref.rc = 0) =>
        (ref.total = out.total /\ ref.unique = out.unique)

\* Both have counted a file with a run longer than the caps; the totals
\* agree and the unique counts do not
C11_Witness ==
    /\ pc = "done"
    /\ ref.rc = 0
    /\ HasLongRun(data)
    /\ ref.total = out.total
    /\ ref.unique # out.unique

\* Run r of data lies within [cuts[i], cuts[i+1])
RunInRange(r, i) == cuts[i + 1] <= r[1] - 1 /\ r[2] <= cuts[i + 2]

\* Run r of data has a byte in [cuts[i], cuts[i+1])
RunTouchesRange(r, i) == r[2] - 1 >= cuts[i + 1] /\ r[1] - 1 < cuts[i + 2]

RunsInRange(i) == {r \in Runs(data) : RunInRange(r, i)}

(***************************************************************************)
(* C12: once main has computed the cuts, 0 = cuts[0] <= cuts[1] <= ... <=  *)
(* cuts[N] = file_size; worker i counts the bytes [cuts[i], cuts[i+1]);    *)
(* every maximal letter run lies inside the range of exactly one worker,   *)
(* and a worker that has returned has counted, with drop_leading = 0, each *)
(* run of its range once, so that no run is split, dropped or counted      *)
(* twice.                                                                  *)
(***************************************************************************)
C12_CutsPartitionRuns ==
    (pc \notin {"open", "exit1", "cuts"}) =>
        /\ Len(cuts) = nthreads + 1
        /\ cuts[1] = 0
        /\ cuts[nthreads + 1] = Len(data)
        /\ \A k \in 1..nthreads : cuts[k] <= cuts[k + 1]
        /\ \A r \in Runs(data) :
              /\ Cardinality({i \in Threads : RunInRange(r, i)}) = 1
              /\ \A i \in Threads : RunTouchesRange(r, i) => RunInRange(r, i)
        /\ \A i \in Threads :
              wpc[i] = "returned" =>
                 /\ tables[i].total_words = Cardinality(RunsInRange(i))
                 /\ \A r \in RunsInRange(i) :
                       CountOf(tables[i].entries,
                               StoredWord(data, r, MAX_WORD - 1)) =
                          Cardinality({q \in RunsInRange(i) :
                              StoredWord(data, q, MAX_WORD - 1) =
                              StoredWord(data, r, MAX_WORD - 1)})

\* Several workers have returned, a cut was moved past the letters of a run
\* that the approximate position fell into, and runs lie on both sides of it
C12_Witness ==
    /\ nthreads >= 2
    /\ \A i \in Threads : wpc[i] = "returned"
    /\ \E k \in 2..nthreads :
          /\ cuts[k] > (k - 1) * (Len(data) \div nthreads)
          /\ cuts[k] < Len(data)
          /\ RunsInRange(k - 2) # {}
          /\ RunsInRange(k - 1) # {}

\* p is the file size or the position of a byte that is not a letter
IsBoundary(p) == p = Len(data) \/ ~is_ascii_letter(data[p + 1])

\* The smallest boundary at or after from
SmallestBoundaryFrom(from) ==
    CHOOSE p \in from..Len(data) :
        IsBoundary(p) /\ \A q \in from..(p - 1) : ~IsBoundary(q)

\* C13 as stated: for every 0 < i < N, cuts[i] is the smallest p >=
\* floor(i * L / N) such that p = L or the byte at p is not an ASCII letter.
C13_CutFromFloorOfFraction ==
    (pc \notin {"open", "exit1", "cuts"}) =>
        \A i \in 1..(nthreads - 1) :
            cuts[i + 1] = SmallestBoundaryFrom((i * Len(data)) \div nthreads)

\* C13 amended: for every 0 < i < N, cuts[i] is the smallest p >=
\* i * floor(L / N) such that p = L or the byte at p is not an ASCII letter.
C13_CutFromMultipleOfFloor ==
    (pc \notin {"open", "exit1", "cuts"}) =>
        \A i \in 1..(nthreads - 1) :
            cuts[i + 1] = SmallestBoundaryFrom(i * (Len(data) \div nthreads))

\* The cuts are computed, and for one of them the two starting positions
\* differ and lead to different cuts
C13_Witness ==
    /\ pc \notin {"open", "exit1", "cuts"}
    /\ \E i \in 1..(nthreads - 1) :
          /\ i * (Len(data) \div nthreads) < (i * Len(data)) \div nthreads
          /\ cuts[i + 1] = SmallestBoundaryFrom(i * (Len(data) \div nthreads))
          /\ cuts[i + 1] < SmallestBoundaryFrom((i * Len(data)) \div nthreads)

(***************************************************************************)
(* C14: merge_tables reads the per-worker tables only after every one of   *)
(* the N workers has finished its range and has been joined, and no worker *)
(* writes a table while the merge or the top-K phase is running: from the  *)
(* step that merges onward all workers have returned and are joined, and   *)
(* the tables do not change.                                               *)
(***************************************************************************)
C14_MergeAfterJoin ==
    /\ [][(global' # global) =>
              /\ joined = nthreads
              /\ \A i \in Threads : wpc[i] = "returned"]_vars
    /\ []((pc \in {"topk", "report", "done"}) =>
              /\ joined = nthreads
              /\ \A i \in Threads : wpc[i] = "returned")
    /\ [][(pc' \in {"topk", "report", "done"}) => tables' = tables]_vars

\* The merge of several workers' tables, not all empty, has taken place
C14_Witness ==
    /\ pc = "topk"
    /\ nthreads >= 2
    /\ global # NoGlobal
    /\ \E i \in Threads : tables[i].size > 0

(***************************************************************************)
(* C15: during the tokenization phase no two workers ever write the same   *)
(* mutable state, in every build configuration: no piece of state written  *)
(* through table_insert_hashed and the counters it updates has two writers.*)
(***************************************************************************)
C15_NoSharedWrites ==
    Cardinality(writers) <= 1

\* A DEBUG build in which two workers have incremented insert_new, and after
\* all workers have returned the counter holds less than the number of
\* entries they created
C15_Witness ==
    /\ debug
    /\ Cardinality(writers) >= 2
    /\ \A i \in Threads : wpc[i] = "returned"
    /\ insert_new < SumSizes(TableSeq)

(***************************************************************************)
(* C16: every run that has mapped its file ends its tokenization phase:    *)
(* under fair scheduling of the threads, each of the N workers passes the  *)
(* barrier of N + 1 parties, completes its range and returns, the joins of *)
(* the main thread all return, and the merge takes place.                  *)
(***************************************************************************)
C16_TokenizationTerminates ==
    (pc = "cuts") ~>
        (/\ pc = "topk"
         /\ joined = nthreads
         /\ \A i \in Threads : wpc[i] = "returned")

\* The last join of a run with the most workers has returned, the merge is
\* about to begin
C16_Witness ==
    /\ pc = "join"
    /\ nthreads = MaxThreads
    /\ joined = nthreads
    /\ \A i \in Threads : wpc[i] = "returned"
    /\ \E i \in Threads : tables[i].total_words > 0

\* The number of times w was passed to table_insert_hashed in the sequence ws
Occurrences(w, ws) == Cardinality({i \in 1..Len(ws) : ws[i] = w})

\* No two live entries hold the same bytes, each count is at least 1 and is
\* the number of inserts of the entry's word among ws, and every word of ws
\* that table_insert_hashed accepts has its entry
UniqueAndCounted(entries, ws) ==
    /\ \A i, j \in 1..Len(entries) :
          (i # j /\ entries[i].word # NullPtr /\ entries[j].word # NullPtr)
              => entries[i].bytes # entries[j].bytes
    /\ \A i \in 1..Len(entries) :
          entries[i].word # NullPtr =>
              /\ entries[i].count >= 1
              /\ entries[i].count = Occurrences(entries[i].bytes, ws)
    /\ \A n \in 1..Len(ws) :
          (Len(ws[n]) > 0 /\ Len(ws[n]) < MAX_WORD) =>
              \E i \in 1..Len(entries) :
                  entries[i].word # NullPtr /\ entries[i].bytes = ws[n]

(***************************************************************************)
(* C17: after any sequence of table_insert_hashed calls interleaved with   *)
(* table_grow, and in the global table after merge_tables, no two live     *)
(* entries of one table have byte-equal words, every live entry has        *)
(* count >= 1, and the count of each entry is the number of inserts of its *)
(* word.                                                                   *)
(***************************************************************************)
C17_UniqueWordsCounted ==
    /\ \A k \in DOMAIN wtabs : UniqueAndCounted(wtabs[k].entries, inserted[k])
    /\ (last.op = "merge") =>
          UniqueAndCounted(merged.entries, inserted[1] \o inserted[2])

\* A table that was grown holds two words, one of them inserted twice, and
\* the merge has added up the counts of a word that both tables hold
C17_Witness ==
    /\ last.op = "merge"
    /\ \E k \in 1..2 :
          /\ wtabs[k].capacity > 4
          /\ wtabs[k].size >= 2
          /\ \E i \in 1..wtabs[k].capacity : wtabs[k].entries[i].count >= 2
    /\ \E w \in TabWords :
          /\ Occurrences(w, inserted[1]) >= 1
          /\ Occurrences(w, inserted[2]) >= 1
          /\ CountOf(merged.entries, w) >= 3

(***************************************************************************)
(* C18: after every completed table_insert_hashed call on a per-worker     *)
(* table, size * 10 <= capacity * 7 (occupied_count / capacity <= 0.7),    *)
(* for every initial capacity and every sequence of inserts.               *)
(***************************************************************************)
C18_LoadAtMost70Percent ==
    (last.op = "insert") =>
        wtabs[last.i].size * 10 <= wtabs[last.i].capacity * 7

\* An insert has created the entry that took the table over 70 percent and
\* has grown the table
C18_Witness ==
    /\ last.op = "insert"
    /\ wtabs[last.i].size = last.before.size + 1
    /\ (last.before.size + 1) * 10 > last.before.capacity * 7
    /\ wtabs[last.i].capacity = 2 * last.before.capacity
    /\ last.before.capacity >= 2

\* The live entries of an entries array as a bag of records
LiveBag(entries) ==
    LET live == {i \in 1..Len(entries) : entries[i].word # NullPtr}
        recs == {entries[i] : i \in live}
    IN  [e \in recs |-> Cardinality({i \in live : entries[i] = e})]

\* The slots from a to b in probe order (with wraparound) in a table of
\* capacity cap, b excluded
ProbePath(a, b, cap) ==
    IF a <= b THEN a..(b - 1) ELSE (a..(cap - 1)) \cup (0..(b - 1))

\* Every live entry is found by linear probing from hash & (capacity - 1):
\* no empty slot lies between its home slot and its slot
PlacedByProbing(t) ==
    \A idx \in 0..(t.capacity - 1) :
        t.entries[idx + 1].word # NullPtr =>
            \A p \in ProbePath(SlotOf(t.entries[idx + 1].hash, t.capacity),
                               idx, t.capacity) :
                t.entries[p + 1].word # NullPtr

(***************************************************************************)
(* C19: table_grow doubles the capacity and leaves the multiset of live    *)
(* entries unchanged: every live entry of the old table is in the new one  *)
(* exactly once with the same word, count, hash, len and fp16, placed by   *)
(* linear probing from its stored hash & (new capacity - 1); size and      *)
(* total_words are unchanged.                                              *)
(***************************************************************************)
C19_GrowKeepsEntries ==
    (last.op = "grow") =>
        /\ wtabs[last.i].capacity = 2 * last.before.capacity
        /\ Len(wtabs[last.i].entries) = wtabs[last.i].capacity
        /\ LiveBag(wtabs[last.i].entries) = LiveBag(last.before.entries)
        /\ PlacedByProbing(wtabs[last.i])
        /\ wtabs[last.i].size = last.before.size
        /\ wtabs[last.i].total_words = last.before.total_words
        /\ wtabs[last.i].pool_used = last.before.pool_used
        /\ wtabs[last.i].malloc_words = last.before.malloc_words

\* table_grow has moved entries: the table held several words, one of them
\* is now in another slot than before, and one lies past its home slot
C19_Witness ==
    /\ last.op = "grow"
    /\ last.before.size >= 2
    /\ \E i \in 1..last.before.capacity :
          /\ last.before.entries[i].word # NullPtr
          /\ wtabs[last.i].entries[i] # last.before.entries[i]
    /\ \E idx \in 0..(wtabs[last.i].capacity - 1) :
          /\ wtabs[last.i].entries[idx + 1].word # NullPtr
          /\ SlotOf(wtabs[last.i].entries[idx + 1].hash,
                    wtabs[last.i].capacity) # idx

\* The words of the live entries of the two tables
SourceWords == WordsOf(wtabs[1].entries) \cup WordsOf(wtabs[2].entries)

(***************************************************************************)
(* C20: the global table built by merge_tables holds exactly one entry per *)
(* distinct word of the source tables, its count is the sum of the word's  *)
(* counts over the source tables, total_unique is the number of distinct   *)
(* words, and the source tables' entries are left as they were.            *)
(***************************************************************************)
C20_MergeSumsCounts ==
    [][TabMerge =>
          /\ WordsOf(merged'.entries) = SourceWords
          /\ \A w \in SourceWords :
                /\ Len(EntriesFor(merged'.entries, w)) = 1
                /\ CountOf(merged'.entries, w) =
                      CountOf(wtabs[1].entries, w) + CountOf(wtabs[2].entries, w)
          /\ Len(LiveEntries(merged'.entries)) = Cardinality(SourceWords)
          /\ merged'.size = Cardinality(SourceWords)
          /\ merged'.total_words = wtabs[1].total_words + wtabs[2].total_words
          /\ wtabs' = wtabs]_vars

\* Two tables with a word in common and a word each of its own were merged
C20_Witness ==
    /\ last.op = "merge"
    /\ WordsOf(wtabs[1].entries) \cap WordsOf(wtabs[2].entries) # {}
    /\ WordsOf(wtabs[1].entries) \ WordsOf(wtabs[2].entries) # {}
    /\ WordsOf(wtabs[2].entries) \ WordsOf(wtabs[1].entries) # {}
    /\ merged.size = 3

(***************************************************************************)
(* table_insert_hashed on a table without an empty slot.  No run of the    *)
(* program builds such a table (see C25), so the tables are given: every   *)
(* slot holds one of FullWords, at an arbitrary place, and up to two words *)
(* are inserted under either build.                                        *)
(***************************************************************************)
FullWords == {<<97>>, <<98>>, <<97, 98>>, <<98, 98>>}

\* A stored entry for word w, as the first branch of the probe loop writes it
EntryWith(w, ptr, h) ==
    [word |-> ptr, bytes |-> w, count |-> 1, hash |-> h,
     len |-> Len(w), fp16 |-> Fp16(h)]

EntryFor(w, ptr) == EntryWith(w, ptr, hash_word(w))

\* The table of capacity c whose slot k holds f[k], the words stored in slot
\* order as pool_alloc places words of fewer than 8 bytes: 8 bytes of the
\* pool each while the pool lasts, then one malloc_words block each
FullTable(c, f) ==
    LET inpool == IF c < STRING_POOL_SIZE \div 8 THEN c
                  ELSE STRING_POOL_SIZE \div 8
    IN  [entries |-> [k \in 1..c |->
                        EntryFor(f[k], IF k <= inpool
                                       THEN <<"pool", 8 * (k - 1)>>
                                       ELSE <<"heap", k - inpool>>)],
         capacity |-> c, size |-> c, total_words |-> c,
         pool_used |-> 8 * inpool,
         malloc_words |-> [j \in 1..(c - inpool) |-> Len(f[j + inpool]) + 1]]

\* The ways to fill c slots with different words
FullFillings(c) ==
    {g \in [1..c -> FullWords] : \A a, b \in 1..c : a # b => g[a] # g[b]}

\* The probe loop of table_insert_hashed leaves through `while (idx !=
\* start_idx)`: the word is accepted, no slot is empty and no entry matches
ProbeWrapsH(t, word, h) ==
    /\ Len(word) > 0
    /\ Len(word) < MAX_WORD
    /\ \A k \in 1..t.capacity :
          /\ t.entries[k].word # NullPtr
          /\ ~(/\ t.entries[k].hash = h
               /\ t.entries[k].len = Len(word)
               /\ t.entries[k].fp16 = Fp16(h)
               /\ SameBytes(t.entries[k], word, Len(word)))

ProbeWraps(t, word) == ProbeWrapsH(t, word, hash_word(word))

InitFull ==
    /\ InitSide
    /\ \E c \in {1, 2, 4} : wtabs = <<TableOfCapacity(c)>>
    /\ debug \in BOOLEAN
    /\ inserted = <<(<<>>)>>
    /\ last = NoOp
    /\ merged = NoGlobal
    /\ data = <<>>
    /\ nthreads = 1
    /\ pc = "off"
    /\ cuts = <<>>
    /\ tables = <<>>
    /\ launched = 0
    /\ wpc = [i \in Threads |-> "none"]
    /\ joined = 0
    /\ global = NoGlobal
    /\ top_words = <<>>
    /\ out = NoOut
    /\ ref = NoRef
    /\ insert_new = 0
    /\ writers = {}
    /\ drop = 0
    /\ simd_t = InitTable(0)
    /\ scalar_t = InitTable(0)
    /\ tokdone = {}

\* The table the insert will meet: every slot of wtabs[1] is given a word
FullGiven(f) ==
    /\ last.op = "none"
    /\ wtabs' = <<FullTable(wtabs[1].capacity, f)>>
    /\ last' = [op |-> "given", i |-> 1, before |-> wtabs[1]]
    /\ UNCHANGED <<mainvars, tokvars, refvars, sidevars, dbgvars, inserted,
                   merged>>

\* table_insert_hashed(&wtabs[1], w, ...) under the build `debug`: after a
\* full turn of the probe loop the DEBUG build calls abort(), the release
\* build grows the table and inserts again
InsertWord(t, w, h) == table_insert_hashed(t, w, Len(w), h, Fp16(h))

FullInsert(w) ==
    /\ last.op \in {"given", "insert"}
    /\ Len(inserted[1]) < 2
    /\ IF debug /\ ProbeWraps(wtabs[1], w)
       THEN /\ last' = [op |-> "abort", i |-> 1, before |-> wtabs[1]]
            /\ UNCHANGED wtabs
       ELSE /\ wtabs' = [wtabs EXCEPT ![1] =
                            InsertWord(@, w, hash_word(w))]
            /\ last' = [op |-> "insert", i |-> 1, before |-> wtabs[1]]
    /\ inserted' = [inserted EXCEPT ![1] = Append(@, w)]
    /\ UNCHANGED <<mainvars, tokvars, refvars, sidevars, dbgvars, merged>>

NextFull ==
    \/ \E f \in FullFillings(wtabs[1].capacity) : FullGiven(f)
    \/ \E w \in FullWords \cup {<<98, 97>>} : FullInsert(w)

SpecFull == InitFull /\ [][NextFull]_vars

\* The word of the last FullInsert
LastWord == inserted[1][Len(inserted[1])]

\* C21: when an insert's probe loop goes once around the table without
\* finding an empty slot or a matching entry, the run aborts; it does not
\* continue past the condition.
C21_FullTableAborts ==
    (last.op \in {"insert", "abort"} /\ ProbeWraps(last.before, LastWord))
        => last.op = "abort"

\* The release build met a table without an empty slot, grew it and went on,
\* the word stored once in the grown table
C21_Witness ==
    /\ ~debug
    /\ last.op = "insert"
    /\ ProbeWraps(last.before, LastWord)
    /\ wtabs[1].capacity = 2 * last.before.capacity
    /\ wtabs[1].size = last.before.size + 1
    /\ \E k \in 1..wtabs[1].capacity : wtabs[1].entries[k].bytes = LastWord

(***************************************************************************)
(* pool_alloc alone: one table, a sequence of requests of any length, each *)
(* followed by the memcpy and the NUL of table_insert_hashed, then main's  *)
(* teardown.  malloc and realloc may return NULL.                          *)
(***************************************************************************)
\* malloc_words' first capacity (1024 in the source)
MALLOC_CAP_INIT == 1

InitPool ==
    /\ ptab = InitTable(0)
    /\ malloc_cap = 0
    /\ pool_mem = [k \in 0..(STRING_POOL_SIZE - 1) |-> -1]
    /\ heap_mem = <<>>
    /\ spans = <<>>
    /\ frees = <<>>
    /\ ppc = "run"
    /\ ThreadsOff
    /\ OverlapOff
    /\ freed = {}
    /\ wtabs = <<>>
    /\ inserted = <<>>
    /\ last = NoOp
    /\ merged = NoGlobal
    /\ data = <<>>
    /\ nthreads = 1
    /\ pc = "off"
    /\ cuts = <<>>
    /\ tables = <<>>
    /\ launched = 0
    /\ wpc = [i \in Threads |-> "none"]
    /\ joined = 0
    /\ global = NoGlobal
    /\ top_words = <<>>
    /\ out = NoOut
    /\ ref = NoRef
    /\ debug = FALSE
    /\ insert_new = 0
    /\ writers = {}
    /\ drop = 0
    /\ simd_t = InitTable(0)
    /\ scalar_t = InitTable(0)
    /\ tokdone = {}

\* char* stored = pool_alloc(t, len); memcpy(stored, word, len);
\* stored[len] = '\0'; for a word of len copies of one letter, a different
\* letter at each call.  `fail` is the allocation that returns NULL.
PoolStore(len, fail) ==
    /\ ppc = "run"
    /\ Len(spans) < MaxAllocs
    /\ LET word == [k \in 1..len |-> 97 + Len(spans)]
           pa == pool_alloc(ptab, len)
           full == Len(ptab.malloc_words) = malloc_cap
       IN  IF pa[1][1] = "pool"
           THEN /\ fail = "none"
                /\ ptab' = pa[2]
                /\ pool_mem' = [k \in 0..(STRING_POOL_SIZE - 1) |->
                                  IF k < pa[1][2] \/ k > pa[1][2] + len
                                  THEN pool_mem[k]
                                  ELSE IF k = pa[1][2] + len THEN 0
                                  ELSE word[k - pa[1][2] + 1]]
                /\ spans' = Append(spans, [ptr |-> pa[1], len |-> len,
                                           bytes |-> word])
                /\ UNCHANGED <<malloc_cap, heap_mem, frees, ppc>>
           ELSE IF fail = "malloc" \/ (fail = "realloc" /\ full)
           THEN /\ ppc' = "exit1"
                /\ UNCHANGED <<ptab, malloc_cap, pool_mem, heap_mem, spans,
                               frees>>
           ELSE /\ fail = "none"
                /\ ptab' = pa[2]
                /\ malloc_cap' = IF ~full THEN malloc_cap
                                 ELSE IF malloc_cap # 0 THEN malloc_cap * 2
                                 ELSE MALLOC_CAP_INIT
                /\ heap_mem' = Append(heap_mem, word \o <<0>>)
                /\ spans' = Append(spans, [ptr |-> pa[1], len |-> len,
                                           bytes |-> word])
                /\ UNCHANGED <<pool_mem, frees, ppc>>
    /\ UNCHANGED <<mainvars, tokvars, refvars, dbgvars, tabvars, thrvars, ovlvars,
                   memvars>>

\* main's teardown of one table: free every malloc_words[j], then the array,
\* the entries and the string pool
PoolTeardown ==
    /\ ppc = "run"
    /\ frees' = [j \in 1..Len(ptab.malloc_words) |-> <<"heap", j>>]
                \o <<(<<"malloc_words", 0>>), (<<"entries", 0>>),
                     (<<"pool", 0>>)>>
    /\ ppc' = "freed"
    /\ UNCHANGED <<ptab, malloc_cap, pool_mem, heap_mem, spans>>
    /\ UNCHANGED <<mainvars, tokvars, refvars, dbgvars, tabvars, thrvars, ovlvars,
                   memvars>>

NextPool ==
    \/ \E len \in 0..MaxAllocLen, fail \in {"none", "malloc", "realloc"} :
          PoolStore(len, fail)
    \/ PoolTeardown

SpecPool == InitPool /\ [][NextPool]_vars

\* The spans pool_alloc took from the string pool
PoolSpans == {k \in 1..Len(spans) : spans[k].ptr[1] = "pool"}

\* C22: after any sequence of pool_alloc calls on one table, pool_used is a
\* multiple of 8 and at most STRING_POOL_SIZE, and every span returned from
\* the pool starts at an offset that is a multiple of 8, lies inside the pool
\* with its len + 1 bytes, and overlaps no other span.
C22_PoolSpansAlignedDisjoint ==
    ppc # "off" =>
    /\ ptab.pool_used % 8 = 0
    /\ ptab.pool_used <= STRING_POOL_SIZE
    /\ \A k \in PoolSpans :
          /\ spans[k].ptr[2] % 8 = 0
          /\ spans[k].ptr[2] >= 0
          /\ spans[k].ptr[2] + spans[k].len + 1 <= STRING_POOL_SIZE
    /\ \A j, k \in PoolSpans :
          j < k => spans[j].ptr[2] + spans[j].len + 1 <= spans[k].ptr[2]

\* Two spans of different sizes were taken from the pool, the second ends at
\* the pool's last byte, and a third request no longer fitted
C22_Witness ==
    /\ Len(spans) = 3
    /\ PoolSpans = {1, 2}
    /\ spans[1].len = 6
    /\ spans[2].ptr = <<"pool", 8>>
    /\ spans[2].len = 7
    /\ ptab.pool_used = STRING_POOL_SIZE

\* The spans pool_alloc served by malloc
HeapSpans == {k \in 1..Len(spans) : spans[k].ptr[1] = "heap"}

\* The len + 1 bytes at a pointer pool_alloc returned
BytesAt(ptr, n) ==
    IF ptr[1] = "pool" THEN [k \in 1..n |-> pool_mem[ptr[2] + k - 1]]
    ELSE SubSeq(heap_mem[ptr[2]], 1, n)

\* How often free() was called on the pointer
TimesFreed(ptr) == Cardinality({j \in 1..Len(frees) : frees[j] = ptr})

\* C23: a request that does not fit the pool is served by a heap block that
\* is recorded exactly once in malloc_words, every word stored before keeps
\* its bytes, teardown frees every recorded block exactly once, and a failed
\* malloc or a failed growth of the list ends the run with a fatal error
\* instead of storing the word.
C23_HeapFallbackRecordedAndFreed ==
    /\ [](ppc # "off" =>
            /\ Len(ptab.malloc_words) = Cardinality(HeapSpans)
            /\ Len(ptab.malloc_words) <= malloc_cap
            /\ \A k \in HeapSpans :
                  /\ spans[k].ptr[2] \in 1..Len(ptab.malloc_words)
                  /\ ptab.malloc_words[spans[k].ptr[2]] = spans[k].len + 1
                  /\ \A j \in HeapSpans : j # k => spans[j].ptr # spans[k].ptr
            /\ \A k \in 1..Len(spans) :
                  BytesAt(spans[k].ptr, spans[k].len + 1)
                      = spans[k].bytes \o <<0>>
            /\ ppc = "freed" =>
                  /\ \A k \in HeapSpans : TimesFreed(spans[k].ptr) = 1
                  /\ \A j \in 1..Len(frees) : TimesFreed(frees[j]) = 1
            /\ ppc # "freed" => frees = <<>>)
    /\ [][ppc' = "exit1" =>
            UNCHANGED <<ptab, pool_mem, heap_mem, spans, frees>>]_vars
    /\ [](ppc = "exit1" => [](ppc = "exit1" /\ frees = <<>>))

\* One word in the pool and two in heap blocks, all three intact, and the
\* teardown done
C23_Witness ==
    /\ ppc = "freed"
    /\ PoolSpans = {1}
    /\ HeapSpans = {2, 3}
    /\ spans[2].ptr # spans[3].ptr
    /\ malloc_cap = 2
    /\ TimesFreed(<<"heap", 1>>) = 1
    /\ TimesFreed(<<"heap", 2>>) = 1

\* Every live entry carries hash_word of its stored bytes, and the
\* fingerprint and the length that go with them
HashOfStoredBytes(t) ==
    \A k \in 1..t.capacity :
        t.entries[k].word # NullPtr =>
            /\ t.entries[k].hash = hash_word(t.entries[k].bytes)
            /\ t.entries[k].fp16 = Fp16(hash_word(t.entries[k].bytes))
            /\ t.entries[k].len = Len(t.entries[k].bytes)

\* The letters of s, lowercased, in order
RECURSIVE LowerLetters(_)
LowerLetters(s) ==
    IF s = <<>> THEN <<>>
    ELSE IF is_ascii_letter(Head(s))
    THEN <<Or20(Head(s))>> \o LowerLetters(Tail(s))
    ELSE LowerLetters(Tail(s))

\* C24: for every token either tokenizer emits, the hash it passes to
\* table_insert_hashed, accumulated one byte at a time and reset at every
\* flush, is hash_word of exactly the lowercase bytes stored, and the
\* fingerprint is the one of that hash, whatever surrounds the token; the
\* byte-at-a-time accumulation agrees with hash_word's eight- and four-byte
\* steps on longer words too (here the letters of the buffer, twice over).
C24_HashOfStoredBytes ==
    /\ "avx512" \in tokdone => HashOfStoredBytes(simd_t)
    /\ "scalar" \in tokdone => HashOfStoredBytes(scalar_t)
    /\ LET w == LowerLetters(data) \o LowerLetters(data)
       IN  crc32c_finalize64(CrcOfBytes(U32Zero, w)) = hash_word(w)

\* Both tokenizers have run over a buffer in which one word occurs more than
\* once, in different case or with different neighbours, and was stored with
\* three bytes under one hash
C24_Witness ==
    /\ tokdone = {"avx512", "scalar"}
    /\ \E k \in 1..simd_t.capacity :
          simd_t.entries[k].count >= 2 /\ simd_t.entries[k].len = 3
    /\ \E k \in 1..scalar_t.capacity :
          scalar_t.entries[k].count >= 2 /\ scalar_t.entries[k].len = 3
    /\ Len(LowerLetters(data)) >= 6

\* C25: in every table, every live entry at slot j with home slot h has all
\* slots cyclically from h to j occupied, right after table_grow too, and the
\* table keeps an empty slot; so the probe loop of any insert stops at an
\* empty slot or a match before it is back at its start, and the table-full
\* branch is not reached.
C25_ProbeRunsUnbrokenNeverFull ==
    \A k \in 1..Len(wtabs) :
        /\ PlacedByProbing(wtabs[k])
        /\ wtabs[k].size < wtabs[k].capacity
        /\ \E s \in 1..wtabs[k].capacity : wtabs[k].entries[s].word = NullPtr
        /\ \A w \in TabWords : ~ProbeWraps(wtabs[k], w)

\* A table just grown from its load limit holds an entry past its home slot
C25_Witness ==
    /\ last.op = "grow"
    /\ last.before.size = 2
    /\ last.before.capacity = 4
    /\ \E idx \in 0..(wtabs[last.i].capacity - 1) :
          /\ wtabs[last.i].entries[idx + 1].word # NullPtr
          /\ SlotOf(wtabs[last.i].entries[idx + 1].hash,
                    wtabs[last.i].capacity) # idx

\* C29: the global table merge_tables builds has capacity next_pow2(2 * sum
\* of the tables' sizes), holds no more entries than that sum, and so keeps
\* at least one empty slot, with every entry reachable by probing from its
\* home slot; every probe loop of the merge therefore ends.  This includes
\* the merge of tables that are all empty.
C29_GlobalKeepsEmptySlot ==
    last.op = "merge" =>
        /\ merged.capacity = next_pow2(2 * SumSizes(wtabs))
        /\ Len(merged.entries) = merged.capacity
        /\ merged.size <= SumSizes(wtabs)
        /\ merged.size < merged.capacity
        /\ Cardinality({s \in 1..merged.capacity :
                           merged.entries[s].word # NullPtr}) = merged.size
        /\ PlacedByProbing(merged)
        /\ (SumSizes(wtabs) = 0) => (merged.capacity = 1 /\ merged.size = 0)

\* Two tables without a common word were merged into a global table exactly
\* half full, one entry past its home slot
C29_Witness ==
    /\ last.op = "merge"
    /\ wtabs[1].size = 1
    /\ wtabs[2].size = 1
    /\ merged.size = 2
    /\ merged.capacity = 4
    /\ \E idx \in 0..3 :
          /\ merged.entries[idx + 1].word # NullPtr
          /\ SlotOf(merged.entries[idx + 1].hash, 4) # idx

\* No two live entries of a reference table hold byte-equal keys
RefKeysDistinct(t) ==
    \A i, j \in 1..t.cap :
        (i < j /\ t.entries[i].key # NullPtr /\ t.entries[j].key # NullPtr)
            => t.entries[i].bytes # t.entries[j].bytes

\* The workers' tables of wordcount.c on the buffer, and the merged table
RefTablesOf(ncpu) ==
    LET n == IF Len(data) < SMALL_FILE THEN 1 ELSE ncpu
        workers == RefWorkers(data, n)
    IN  [workers |-> workers,
         merged |-> merge_into(
                       table_init(RefMergedCap(INITIAL_CAP, RefSumLen(workers)),
                                  0),
                       workers)]

\* C27: in wordcount.c, after tokenizing any buffer no two live entries of a
\* worker's table, nor of the merged table, hold byte-equal keys, runs longer
\* than MAX_WORD_LEN included; so the unique count is the number of distinct
\* stored words.
C27_RefKeysDistinct ==
    ref.rc = 0 =>
        \A ncpu \in 1..MaxThreads :
            LET r == RefTablesOf(ncpu)
            IN  /\ \A k \in 1..Len(r.workers) : RefKeysDistinct(r.workers[k])
                /\ RefKeysDistinct(r.merged)

\* wordcount.c has run over "aaaaa aaaab": two runs longer than MAX_WORD_LEN
\* with the same first MAX_WORD_LEN letters, reported as two unique words
\* although both are stored under the key "aa"
C27_Witness ==
    /\ data = BufLong
    /\ ref.rc = 0
    /\ ref.unique = 2
    /\ ~RefKeysDistinct(RefTablesOf(1).merged)

(***************************************************************************)
(* wordcount.c: the life of the worker threads and of their tables, from   *)
(* main's table_init loop to its return.  Every call that can fail fails   *)
(* or succeeds; a worker runs at any time between its creation and the     *)
(* end of the process.                                                     *)
(***************************************************************************)
InitThr ==
    /\ PoolOff
    /\ OverlapOff
    /\ freed = {}
    /\ rpc = "tables"
    /\ nworkers \in 1..MaxThreads
    /\ spawn_i = 0
    /\ g_nthreads = 0
    /\ rthreads = [i \in 0..(nworkers - 1) |-> "none"]
    /\ werr = {}
    /\ join_i = 0
    /\ free_i = 0
    /\ rfreed = {}
    /\ main_rc = 1
    /\ wtabs = <<>>
    /\ inserted = <<>>
    /\ last = NoOp
    /\ merged = NoGlobal
    /\ data = <<>>
    /\ nthreads = 1
    /\ pc = "off"
    /\ cuts = <<>>
    /\ tables = <<>>
    /\ launched = 0
    /\ wpc = [i \in Threads |-> "none"]
    /\ joined = 0
    /\ global = NoGlobal
    /\ top_words = <<>>
    /\ out = NoOut
    /\ ref = NoRef
    /\ debug = FALSE
    /\ insert_new = 0
    /\ writers = {}
    /\ drop = 0
    /\ simd_t = InitTable(0)
    /\ scalar_t = InitTable(0)
    /\ tokdone = {}

ThrRest ==
    <<mainvars, tokvars, refvars, dbgvars, tabvars, poolvars, ovlvars, memvars>>

\* main's loop over table_init: all succeed, or one fails and main goes to
\* cleanup
RefTableInit(ok) ==
    /\ rpc = "tables"
    /\ rpc' = IF ok THEN "spawn" ELSE "cleanup"
    /\ UNCHANGED <<nworkers, spawn_i, g_nthreads, rthreads, werr, join_i,
                   free_i, rfreed, main_rc>>
    /\ UNCHANGED ThrRest

\* spawn_workers, one turn of its loop: pthread_create starts worker spawn_i,
\* or fails and spawn_workers returns -1 at once; after the loop g_nthreads
\* = n and main calls join_workers
spawn_workers(ok) ==
    /\ rpc = "spawn"
    /\ IF spawn_i < nworkers
       THEN IF ok
            THEN /\ rthreads' = [rthreads EXCEPT ![spawn_i] = "running"]
                 /\ spawn_i' = spawn_i + 1
                 /\ UNCHANGED <<rpc, g_nthreads>>
            ELSE /\ rpc' = "cleanup"
                 /\ UNCHANGED <<rthreads, spawn_i, g_nthreads>>
       ELSE /\ ok
            /\ g_nthreads' = nworkers
            /\ rpc' = "join"
            /\ UNCHANGED <<rthreads, spawn_i>>
    /\ UNCHANGED <<nworkers, werr, join_i, free_i, rfreed, main_rc>>
    /\ UNCHANGED ThrRest

\* worker_entry: process_chunk tokenizes into workers[i].table and sets err;
\* the thread runs until the process has ended
worker_entry(i, err) ==
    /\ rpc # "exit"
    /\ rthreads[i] = "running"
    /\ rthreads' = [rthreads EXCEPT ![i] = "returned"]
    /\ werr' = IF err THEN werr \cup {i} ELSE werr
    /\ UNCHANGED <<rpc, nworkers, spawn_i, g_nthreads, join_i, free_i, rfreed,
                   main_rc>>
    /\ UNCHANGED ThrRest

\* join_workers, one turn of its loop over g_nthreads threads, then
\* g_nthreads = 0 and main's test of the workers' err
join_workers ==
    /\ rpc = "join"
    /\ IF join_i < g_nthreads
       THEN /\ rthreads[join_i] = "returned"
            /\ rthreads' = [rthreads EXCEPT ![join_i] = "joined"]
            /\ join_i' = join_i + 1
            /\ UNCHANGED <<rpc, g_nthreads>>
       ELSE /\ g_nthreads' = 0
            /\ rpc' = IF werr # {} THEN "cleanup" ELSE "merge"
            /\ UNCHANGED <<rthreads, join_i>>
    /\ UNCHANGED <<nworkers, spawn_i, werr, free_i, rfreed, main_rc>>
    /\ UNCHANGED ThrRest

\* main from the merge to rc = 0: the calloc of the merged table or
\* merge_into fails, or the report is printed
RefMergeAndPrint(ok) ==
    /\ rpc = "merge"
    /\ rpc' = "cleanup"
    /\ main_rc' = IF ok THEN 0 ELSE 1
    /\ UNCHANGED <<nworkers, spawn_i, g_nthreads, rthreads, werr, join_i,
                   free_i, rfreed>>
    /\ UNCHANGED ThrRest

\* cleanup: table_free(&workers[i].table) for every i < nworkers, then
\* free(workers), mf_close and return rc
RefCleanup ==
    /\ rpc = "cleanup"
    /\ IF free_i < nworkers
       THEN /\ rfreed' = rfreed \cup {free_i}
            /\ free_i' = free_i + 1
            /\ UNCHANGED rpc
       ELSE /\ rpc' = "exit"
            /\ UNCHANGED <<rfreed, free_i>>
    /\ UNCHANGED <<nworkers, spawn_i, g_nthreads, rthreads, werr, join_i,
                   main_rc>>
    /\ UNCHANGED ThrRest

NextThr ==
    \/ \E ok \in BOOLEAN : RefTableInit(ok)
    \/ \E ok \in BOOLEAN : spawn_workers(ok)
    \/ \E i \in 0..(nworkers - 1), err \in BOOLEAN : worker_entry(i, err)
    \/ join_workers
    \/ \E ok \in BOOLEAN : RefMergeAndPrint(ok)
    \/ RefCleanup

SpecThr == InitThr /\ [][NextThr]_vars

\* C28: in wordcount.c no worker's table or arena is freed while its thread
\* may still run: table_free happens only after every created thread has
\* been joined, on every path through main, also when spawn_workers fails
\* after it has created some threads.
C28_FreeOnlyAfterJoin ==
    rfreed # {} =>
        \A i \in 0..(nworkers - 1) : rthreads[i] \in {"none", "joined"}

\* spawn_workers failed at its second pthread_create, and cleanup has freed
\* the table of the first worker, which is still tokenizing into it
C28_Witness ==
    /\ spawn_i = 1
    /\ rpc = "cleanup"
    /\ 0 \in rfreed
    /\ rthreads[0] = "running"

(***************************************************************************)
(* The overlapping-chunk revision of the engine: main sets up one work     *)
(* unit per worker, [i * chunk, (i + 1) * chunk) with the end moved forward *)
(* past letters and drop_leading set when the byte before the start is a   *)
(* letter, and each worker tokenizes its unit with process_chunk (which is *)
(* what process_chunk_avx512 is without AVX-512).                          *)
(***************************************************************************)
\* main: units[i].start, .end and .drop_leading
WorkUnit(buf, n, i) ==
    LET chunk == Len(buf) \div n
        start == i * chunk
        end0 == IF i = n - 1 THEN Len(buf) ELSE (i + 1) * chunk
        end == IF i < n - 1 THEN AdvancePastLetters(buf, end0) ELSE end0
    IN  [start |-> start, end |-> end,
         drop_leading |-> IF start > 0 /\ is_ascii_letter(buf[start])
                          THEN 1 ELSE 0]

InitOvl ==
    /\ PoolOff
    /\ ThreadsOff
    /\ OverlapOff
    /\ freed = {}
    /\ data \in Buffers \ {<<>>}
    /\ nthreads \in 1..MaxThreads
    /\ wtabs = <<>>
    /\ inserted = <<>>
    /\ last = NoOp
    /\ merged = NoGlobal
    /\ pc = "off"
    /\ cuts = <<>>
    /\ tables = <<>>
    /\ launched = 0
    /\ wpc = [i \in Threads |-> "none"]
    /\ joined = 0
    /\ global = NoGlobal
    /\ top_words = <<>>
    /\ out = NoOut
    /\ ref = NoRef
    /\ debug = FALSE
    /\ insert_new = 0
    /\ writers = {}
    /\ drop = 0
    /\ simd_t = InitTable(0)
    /\ scalar_t = InitTable(0)
    /\ tokdone = {}

OvlRest ==
    <<mainvars, tokvars, refvars, dbgvars, tabvars, poolvars, thrvars, memvars>>

\* main: the tables and the work units
OvlSetup ==
    /\ units = <<>>
    /\ units' = [k \in 1..nthreads |-> WorkUnit(data, nthreads, k - 1)]
    /\ utabs' = [k \in 1..nthreads |-> InitTable(Len(data) \div nthreads)]
    /\ UNCHANGED udone
    /\ UNCHANGED OvlRest

\* worker: process_chunk(unit->table, unit->data + unit->start,
\* unit->end - unit->start, unit->drop_leading)
OvlWorker(i) ==
    /\ units # <<>>
    /\ i \notin udone
    /\ utabs' = [utabs EXCEPT ![i + 1] =
                    process_chunk(@, Slice(data, units[i + 1].start,
                                           units[i + 1].end),
                                  units[i + 1].drop_leading)]
    /\ udone' = udone \cup {i}
    /\ UNCHANGED units
    /\ UNCHANGED OvlRest

NextOvl ==
    \/ OvlSetup
    \/ \E i \in Threads : OvlWorker(i)

SpecOvl == InitOvl /\ [][NextOvl]_vars

\* The words all workers of the revision have counted
RECURSIVE OvlTotal(_)
OvlTotal(tabs) ==
    IF tabs = <<>> THEN 0 ELSE Head(tabs).total_words + OvlTotal(Tail(tabs))

\* C26: in the overlapping-chunk revision, with worker i working on
\* [i * chunk, (i + 1) * chunk) extended forward past letters and dropping
\* its leading letters exactly when the byte before its start is a letter,
\* every maximal letter run of the buffer is counted exactly once, a run that
\* begins exactly at a worker's start included.
C26_OverlapCountsEachRunOnce ==
    udone = Threads => OvlTotal(utabs) = NumRuns(data)

\* All workers are done, and a run began exactly at the start of a worker
\* other than the first: the worker before it, whose end moved past the run,
\* counted it, and so did the worker itself
C26_Witness ==
    /\ udone = Threads
    /\ units # <<>>
    /\ \E k \in 2..nthreads :
          /\ units[k].start > 0
          /\ units[k].start < Len(data)
          /\ is_ascii_letter(data[units[k].start + 1])
          /\ units[k].drop_leading = 0
          /\ units[k - 1].end > units[k].start
    /\ OvlTotal(utabs) > NumRuns(data)

\* The word pointer of entry e is one that a live entry of some worker's
\* table holds for the same bytes: it points into that table's string pool
\* or to one of its malloc_words blocks
OwnedByATable(e) ==
    \E i \in Threads :
        \E k \in 1..tables[i].capacity :
            /\ tables[i].entries[k].word = e.word
            /\ tables[i].entries[k].word # NullPtr
            /\ tables[i].entries[k].bytes = e.bytes

\* C30: every word that an entry of the global table or of the top-K list
\* refers to lies in storage owned by a worker's table, and main releases
\* that storage only after the last read of the top-K list for the report:
\* nothing is released before the report is written, and no word is read
\* after its table was freed.
C30_WordsOutliveReport ==
    /\ [](pc \in {"topk", "report", "done", "exit0"} =>
            \A k \in 1..global.capacity :
                global.entries[k].word # NullPtr
                    => OwnedByATable(global.entries[k]))
    /\ [](pc \in {"report", "done", "exit0"} =>
            \A k \in 1..Len(top_words) : OwnedByATable(top_words[k]))
    /\ [](freed # {} => (pc = "exit0" /\ freed = Threads))
    /\ [][freed' # freed => (pc = "done" /\ out' = out)]_vars
    /\ [][(out' # out \/ top_words' # top_words \/ global' # global)
            => (freed = {} /\ freed' = {})]_vars

\* main has returned after a report of two words, one kept in a string pool
\* and one in a malloc'ed block, and every table is released
C30_Witness ==
    /\ pc = "exit0"
    /\ freed = Threads
    /\ nthreads >= 2
    /\ Len(out.top) = 2
    /\ \E k \in 1..Len(top_words) : top_words[k].word[1] = "heap"
    /\ \E k \in 1..Len(top_words) : top_words[k].word[1] = "pool"

=============================================================================
